---- MODULE Spec2Model ----
(***************************************************************************)
(* go-picker: typed getters over a decoded JSON document with deferred,    *)
(* collected validation errors.                                            *)
(*                                                                         *)
(* The repository holds two designs of the Picker.  The one with a         *)
(* path -> reason map (`errors`) and the Pick entry points is modelled by  *)
(* the definitions without suffix; the one with an ordered list of failed  *)
(* paths (`errorKeys`) is modelled by the definitions ending in K.         *)
(***************************************************************************)
EXTENDS Integers, Sequences, FiniteSets, TLC

(* ------------------------------ bounds --------------------------------- *)

\* operations the extraction function performs in one run
MaxSteps == 3

\* Picker objects allocated in one run
MaxPickers == 5

\* NestedPickerArray objects allocated in one run
MaxArrays == 1

\* operations of the extraction function in the runs that try every getter
MaxGetterSteps == 2

\* operations of the extraction function in the runs on arrays of Pickers
MaxArraySteps == 2

(* --------------------------- document model ---------------------------- *)

\* the keys the extraction function asks for
Keys == {"a", "b", "c"}

EmptyMap == [k \in {} |-> 0]

\* One decoded value (interface{}).  t is the dynamic type; exactly one of
\* the payload fields is meaningful for each type.  float64 payloads are
\* kept in tenths (n = 425 is 42.5) so that truncation can be computed.
Val(t, s, n, b, o, a) == [t |-> t, s |-> s, n |-> n, b |-> b, o |-> o, a |-> a]
Null == Val("nil", "", 0, FALSE, EmptyMap, <<>>)
Str(s) == Val("string", s, 0, FALSE, EmptyMap, <<>>)
Num(tenths) == Val("float64", "", tenths, FALSE, EmptyMap, <<>>)
Int64(n) == Val("int64", "", n, FALSE, EmptyMap, <<>>)
Bool(b) == Val("bool", "", 0, b, EmptyMap, <<>>)
Obj(o) == Val("object", "", 0, FALSE, o, <<>>)
Arr(a) == Val("array", "", 0, FALSE, EmptyMap, a)
Time(s) == Val("time", s, 0, FALSE, EmptyMap, <<>>)
PickerRef(i) == Val("picker", "", i, FALSE, EmptyMap, <<>>)
ArrayRef(i) == Val("pickerArray", "", i, FALSE, EmptyMap, <<>>)

\* time.Time{}
ZeroTime == Time("0001-01-01T00:00:00Z")

\* {"a": {"a": "Al", "b": {"a": -1.5, "c": "str"}, "c": null}, "b": "John"}
DocNested ==
    ("a" :> Obj(("a" :> Str("Al")) @@
                ("b" :> Obj(("a" :> Num(-15)) @@ ("c" :> Str("str")))) @@
                ("c" :> Null))) @@
    ("b" :> Str("John"))

\* {"a": [{"a": "Al"}, "not-an-object", {"b": true}], "b": ["x", "y"], "c": [1, "x"]}
DocArrays ==
    ("a" :> Arr(<<Obj("a" :> Str("Al")), Str("not-an-object"), Obj("b" :> Bool(TRUE))>>)) @@
    ("b" :> Arr(<<Str("x"), Str("y")>>)) @@
    ("c" :> Arr(<<Num(10), Str("x")>>))

\* {"a": "2025-01-13", "b": true, "c": 42.5}
DocScalars ==
    ("a" :> Str("2025-01-13")) @@ ("b" :> Bool(TRUE)) @@ ("c" :> Num(425))

\* {"a": "2025-01-13T10:30:00Z", "b": "2025-01-13T10:30:00", "c": "13/01/2025"}
DocDates ==
    ("a" :> Str("2025-01-13T10:30:00Z")) @@ ("b" :> Str("2025-01-13T10:30:00")) @@
    ("c" :> Str("13/01/2025"))

\* {"a": [{"a": 1}, {"a": "x"}], "b": {"a": ["x", {"a": true}]}, "c": null}
DocObjects ==
    ("a" :> Arr(<<Obj("a" :> Num(10)), Obj("a" :> Str("x"))>>)) @@
    ("b" :> Obj("a" :> Arr(<<Str("x"), Obj("a" :> Bool(TRUE))>>))) @@ ("c" :> Null)

\* the documents handed to Pick
Docs == {EmptyMap, DocNested, DocArrays, DocScalars, DocDates, DocObjects}

(* ------------------------------ errors --------------------------------- *)

\* map[string]string{}
EmptyErrors == [k \in {} |-> ""]

\* m[k] = v on a Go map
Put(m, k, v) == [q \in (DOMAIN m) \cup {k} |-> IF q = k THEN v ELSE m[q]]

\* error values: nil, *PickerError, and the decoder's / reader's errors
Err(kind, msg, errs) == [kind |-> kind, msg |-> msg, Errors |-> errs]
NilErr == Err("nil", "", EmptyErrors)
JsonErr == Err("json", "invalid character", EmptyErrors)
ReadErr == Err("read", "unexpected EOF", EmptyErrors)
PickerError(errs) == Err("PickerError", "missing or invalid", errs)

HasDetail(err) == err.kind = "PickerError"

Detail(err) == IF err.kind = "PickerError" THEN err.Errors ELSE EmptyErrors

(* ------------------------------- state --------------------------------- *)

VARIABLES
    pc,             \* "idle", "fn" (inside the extraction function), "done"
    entry,          \* the entry point that was called
    fnRan,          \* whether the extraction function was invoked
    pickers,        \* the Picker objects, by address 1..Len(pickers)
    arrays,         \* the NestedPickerArray objects, by address
    trace,          \* the operations the extraction function performed, with what each returned
    result,         \* what the entry point returned
    ErrorMissing,   \* package variable
    ErrorInvalid    \* package variable

vars == <<pc, entry, fnRan, pickers, arrays, trace, result, ErrorMissing, ErrorInvalid>>

NoOp == [op |-> "none", p |-> 0, key |-> "", ok |-> TRUE, ret |-> Null, err |-> NilErr]

\* the last operation of the extraction function
last == IF Len(trace) = 0 THEN NoOp ELSE trace[Len(trace)]

\* operations performed by the extraction function
steps == Len(trace)
Op(op, p, key, ok, ret) == [op |-> op, p |-> p, key |-> key, ok |-> ok, ret |-> ret, err |-> NilErr]

NoResult == [out |-> "none", err |-> NilErr]

Init ==
    /\ pc = "idle"
    /\ entry = "none"
    /\ fnRan = FALSE
    /\ pickers = <<>>
    /\ arrays = <<>>
    /\ trace = <<>>
    /\ result = NoResult
    /\ ErrorMissing = "missing"
    /\ ErrorInvalid = "invalid"

(* -------------------- Picker with an errors map ------------------------ *)

newPicker(data) ==
    [data |-> data, errors |-> EmptyErrors, parentPicker |-> 0, parentKey |-> ""]

newNestedPicker(data, parent, key) ==
    [data |-> data, errors |-> EmptyErrors, parentPicker |-> parent, parentKey |-> key]

\* _, ok := p.data[key]
HasKey(h, p, key) == key \in DOMAIN h[p].data

\* value, ok := p.data[key].(T)
Is(h, p, key, t) == key \in DOMAIN h[p].data /\ h[p].data[key].t = t

\* SetError that replaces the collection instead of adding to it
SetErrorKeepsLast(h, p, key, reason) ==
    IF h[p].parentPicker # 0
    THEN [h EXCEPT ![h[p].parentPicker].errors = (h[p].parentKey \o "." \o key) :> reason]
    ELSE [h EXCEPT ![p].errors = key :> reason]

SetError(h, p, key, reason) ==
    IF h[p].parentPicker # 0
    THEN [h EXCEPT ![h[p].parentPicker].errors = Put(@, h[p].parentKey \o "." \o key, reason)]
    ELSE [h EXCEPT ![p].errors = Put(@, key, reason)]

SetInvalid(h, p, key) == SetError(h, p, key, ErrorInvalid)

\* addError that takes a null value for an absent key
addErrorNilIsMissing(h, p, key) ==
    SetError(h, p, key, IF HasKey(h, p, key) /\ h[p].data[key].t # "nil"
                        THEN ErrorInvalid ELSE ErrorMissing)

\* addError with the reasons fixed to the texts the package starts with
addErrorDefaultTexts(h, p, key) ==
    SetError(h, p, key, IF HasKey(h, p, key) THEN "invalid" ELSE "missing")

addError(h, p, key) ==
    SetError(h, p, key, IF HasKey(h, p, key) THEN ErrorInvalid ELSE ErrorMissing)

\* Confirm that lets a single error pass
ConfirmNeedsTwo(h, p) ==
    IF Cardinality(DOMAIN h[p].errors) > 1 THEN PickerError(h[p].errors) ELSE NilErr

\* Confirm that returns a PickerError also for an empty collection
ConfirmAlways(h, p) ==
    IF Cardinality(DOMAIN h[p].errors) >= 0 THEN PickerError(h[p].errors) ELSE NilErr

Confirm(h, p) ==
    IF Cardinality(DOMAIN h[p].errors) > 0 THEN PickerError(h[p].errors) ELSE NilErr

(* ----------------------------- entry points ---------------------------- *)

\* the extraction function may perform one more operation
InFn == pc = "fn" /\ steps < MaxSteps

\* Pick up to the call of fn: inst := newPicker(data); fn(inst)
PickEnter(data, name) ==
    /\ pickers' = <<newPicker(data)>>
    /\ pc' = "fn"
    /\ entry' = name
    /\ fnRan' = TRUE
    /\ UNCHANGED <<arrays, trace, result, ErrorMissing, ErrorInvalid>>

Pick(data) ==
    /\ pc = "idle"
    /\ PickEnter(data, "Pick")

\* Pick from the return of fn: out := fn(inst); err := inst.Confirm(); ...
PickReturn ==
    /\ pc = "fn"
    /\ LET err == Confirm(pickers, 1) IN
       result' = IF err # NilErr THEN [out |-> "zero", err |-> err]
                                 ELSE [out |-> "out", err |-> NilErr]
    /\ pc' = "done"
    /\ UNCHANGED <<entry, fnRan, pickers, arrays, trace, ErrorMissing, ErrorInvalid>>

(* ------------------------------- getters ------------------------------- *)

\* what every operation of the extraction function leaves alone
Step(h, l) ==
    /\ pickers' = h
    /\ trace' = Append(trace, l)
    /\ UNCHANGED <<pc, entry, fnRan, arrays, result, ErrorMissing, ErrorInvalid>>

GetString(p, key) ==
    /\ InFn
    /\ IF ~Is(pickers, p, key, "string")
       THEN Step(addError(pickers, p, key), Op("GetString", p, key, FALSE, Str("")))
       ELSE Step(pickers, Op("GetString", p, key, TRUE, pickers[p].data[key]))

\* GetStringOr that reports the failure before falling back
GetStringOrRecords(p, key, fallback) ==
    /\ InFn
    /\ IF ~Is(pickers, p, key, "string")
       THEN Step(addError(pickers, p, key), Op("GetStringOr", p, key, FALSE, fallback))
       ELSE Step(pickers, Op("GetStringOr", p, key, TRUE, pickers[p].data[key]))

GetStringOr(p, key, fallback) ==
    /\ InFn
    /\ IF ~Is(pickers, p, key, "string")
       THEN Step(pickers, Op("GetStringOr", p, key, FALSE, fallback))
       ELSE Step(pickers, Op("GetStringOr", p, key, TRUE, pickers[p].data[key]))

\* int64(value) of a float64 kept in tenths: truncation toward zero
Trunc(tenths) == IF tenths >= 0 THEN tenths \div 10 ELSE -((-tenths) \div 10)

GetInt(p, key) ==
    /\ InFn
    /\ IF ~Is(pickers, p, key, "float64")
       THEN Step(addError(pickers, p, key), Op("GetInt", p, key, FALSE, Int64(0)))
       ELSE Step(pickers, Op("GetInt", p, key, TRUE, Int64(Trunc(pickers[p].data[key].n))))

GetIntOr(p, key, fallback) ==
    /\ InFn
    /\ IF ~Is(pickers, p, key, "float64")
       THEN Step(pickers, Op("GetIntOr", p, key, FALSE, fallback))
       ELSE Step(pickers, Op("GetIntOr", p, key, TRUE, Int64(Trunc(pickers[p].data[key].n))))

GetFloat(p, key) ==
    /\ InFn
    /\ IF ~Is(pickers, p, key, "float64")
       THEN Step(addError(pickers, p, key), Op("GetFloat", p, key, FALSE, Num(0)))
       ELSE Step(pickers, Op("GetFloat", p, key, TRUE, pickers[p].data[key]))

GetFloatOr(p, key, fallback) ==
    /\ InFn
    /\ IF ~Is(pickers, p, key, "float64")
       THEN Step(pickers, Op("GetFloatOr", p, key, FALSE, fallback))
       ELSE Step(pickers, Op("GetFloatOr", p, key, TRUE, pickers[p].data[key]))

GetBool(p, key) ==
    /\ InFn
    /\ IF ~Is(pickers, p, key, "bool")
       THEN Step(addError(pickers, p, key), Op("GetBool", p, key, FALSE, Bool(FALSE)))
       ELSE Step(pickers, Op("GetBool", p, key, TRUE, pickers[p].data[key]))

GetBoolOr(p, key, fallback) ==
    /\ InFn
    /\ IF ~Is(pickers, p, key, "bool")
       THEN Step(pickers, Op("GetBoolOr", p, key, FALSE, fallback))
       ELSE Step(pickers, Op("GetBoolOr", p, key, TRUE, pickers[p].data[key]))

(* -------------------------------- dates -------------------------------- *)

RFC3339 == "2006-01-02T15:04:05Z07:00"

DateOnly == "2006-01-02"

DateTimeNoZone == "2006-01-02T15:04:05"

NoTime == [ok |-> FALSE, t |-> ZeroTime]

\* time.Parse(layout, value) on the strings that occur in the documents:
\* a layout accepts only text of exactly its own shape
timeParse(layout, value) ==
    CASE layout = RFC3339 /\ value = "2025-01-13T10:30:00Z" ->
            [ok |-> TRUE, t |-> Time("2025-01-13T10:30:00Z")]
      [] layout = DateOnly /\ value = "2025-01-13" ->
            [ok |-> TRUE, t |-> Time("2025-01-13T00:00:00Z")]
      [] layout = DateTimeNoZone /\ value = "2025-01-13T10:30:00" ->
            [ok |-> TRUE, t |-> Time("2025-01-13T10:30:00Z")]
      [] OTHER -> NoTime

parseDate(value) ==
    LET formats == <<RFC3339, DateOnly, DateTimeNoZone>>
        hits == {i \in 1..Len(formats) : timeParse(formats[i], value).ok}
    IN  IF hits = {} THEN NoTime
        ELSE timeParse(formats[CHOOSE i \in hits : \A j \in hits : i <= j], value)

GetDate(p, key) ==
    /\ InFn
    /\ IF ~Is(pickers, p, key, "string")
       THEN Step(addError(pickers, p, key), Op("GetDate", p, key, FALSE, ZeroTime))
       ELSE LET date == parseDate(pickers[p].data[key].s) IN
            IF ~date.ok
            THEN Step(SetInvalid(pickers, p, key), Op("GetDate", p, key, FALSE, ZeroTime))
            ELSE Step(pickers, Op("GetDate", p, key, TRUE, date.t))

\* GetDateOr that marks an unparseable date like GetDate does
GetDateOrRecords(p, key, fallback) ==
    /\ InFn
    /\ IF ~Is(pickers, p, key, "string")
       THEN Step(pickers, Op("GetDateOr", p, key, FALSE, fallback))
       ELSE LET date == parseDate(pickers[p].data[key].s) IN
            IF ~date.ok
            THEN Step(SetInvalid(pickers, p, key), Op("GetDateOr", p, key, FALSE, fallback))
            ELSE Step(pickers, Op("GetDateOr", p, key, TRUE, date.t))

GetDateOr(p, key, fallback) ==
    /\ InFn
    /\ IF ~Is(pickers, p, key, "string")
       THEN Step(pickers, Op("GetDateOr", p, key, FALSE, fallback))
       ELSE LET date == parseDate(pickers[p].data[key].s) IN
            IF ~date.ok
            THEN Step(pickers, Op("GetDateOr", p, key, FALSE, fallback))
            ELSE Step(pickers, Op("GetDateOr", p, key, TRUE, date.t))

(* -------------------------- objects and arrays ------------------------- *)

GetObject(p, key) ==
    /\ InFn
    /\ IF ~Is(pickers, p, key, "object")
       THEN Step(addError(pickers, p, key), Op("GetObject", p, key, FALSE, Null))
       ELSE Step(pickers, Op("GetObject", p, key, TRUE, pickers[p].data[key]))

GetObjectOr(p, key, fallback) ==
    /\ InFn
    /\ IF ~Is(pickers, p, key, "object")
       THEN Step(pickers, Op("GetObjectOr", p, key, FALSE, fallback))
       ELSE Step(pickers, Op("GetObjectOr", p, key, TRUE, pickers[p].data[key]))

GetArray(p, key) ==
    /\ InFn
    /\ IF ~Is(pickers, p, key, "array")
       THEN Step(addError(pickers, p, key), Op("GetArray", p, key, FALSE, Null))
       ELSE Step(pickers, Op("GetArray", p, key, TRUE, pickers[p].data[key]))

GetArrayOr(p, key, fallback) ==
    /\ InFn
    /\ IF ~Is(pickers, p, key, "array")
       THEN Step(pickers, Op("GetArrayOr", p, key, FALSE, fallback))
       ELSE Step(pickers, Op("GetArrayOr", p, key, TRUE, pickers[p].data[key]))

\* the element types GetTypedArray is instantiated with
ElemTypes == {"string", "float64", "bool"}

\* the loop of GetTypedArray: the elements up to the first one that is not a T
RECURSIVE typedPrefix(_, _, _)
typedPrefix(value, T, i) ==
    IF i > Len(value) THEN <<>>
    ELSE IF value[i].t = T THEN <<value[i]>> \o typedPrefix(value, T, i + 1)
    ELSE <<>>

\* GetTypedArray that keeps the elements converted before the mismatch
GetTypedArrayPartial(T, p, key) ==
    /\ InFn
    /\ IF ~Is(pickers, p, key, "array")
       THEN Step(addError(pickers, p, key), Op("GetTypedArray", p, key, FALSE, Arr(<<>>)))
       ELSE LET value == pickers[p].data[key].a
                typed == typedPrefix(value, T, 1)
            IN  IF Len(typed) < Len(value)
                THEN Step(addError(pickers, p, key), Op("GetTypedArray", p, key, FALSE, Arr(typed)))
                ELSE Step(pickers, Op("GetTypedArray", p, key, TRUE, Arr(typed)))

GetTypedArray(T, p, key) ==
    /\ InFn
    /\ IF ~Is(pickers, p, key, "array")
       THEN Step(addError(pickers, p, key), Op("GetTypedArray", p, key, FALSE, Arr(<<>>)))
       ELSE LET value == pickers[p].data[key].a
                typed == typedPrefix(value, T, 1)
            IN  IF Len(typed) < Len(value)
                THEN Step(addError(pickers, p, key), Op("GetTypedArray", p, key, FALSE, Arr(<<>>)))
                ELSE Step(pickers, Op("GetTypedArray", p, key, TRUE, Arr(typed)))

(* --------------------------- nested pickers ---------------------------- *)

\* Nested whose placeholder is a root Picker, cut off from the caller
NestedDetached(p, key) ==
    /\ InFn
    /\ Len(pickers) < MaxPickers
    /\ IF ~Is(pickers, p, key, "object")
       THEN Step(Append(addError(pickers, p, key), newPicker(EmptyMap)),
                 Op("Nested", p, key, FALSE, PickerRef(Len(pickers) + 1)))
       ELSE Step(Append(pickers, newNestedPicker(pickers[p].data[key].o, p, key)),
                 Op("Nested", p, key, TRUE, PickerRef(Len(pickers) + 1)))

Nested(p, key) ==
    /\ InFn
    /\ Len(pickers) < MaxPickers
    /\ IF ~Is(pickers, p, key, "object")
       THEN Step(Append(addError(pickers, p, key), newNestedPicker(EmptyMap, p, key)),
                 Op("Nested", p, key, FALSE, PickerRef(Len(pickers) + 1)))
       ELSE Step(Append(pickers, newNestedPicker(pickers[p].data[key].o, p, key)),
                 Op("Nested", p, key, TRUE, PickerRef(Len(pickers) + 1)))

\* strconv.Itoa
RECURSIVE Itoa(_)
Itoa(n) ==
    IF n < 0 THEN "-" \o Itoa(-n)
    ELSE IF n < 10 THEN <<"0", "1", "2", "3", "4", "5", "6", "7", "8", "9">>[n + 1]
    ELSE Itoa(n \div 10) \o Itoa(n % 10)

newNestedPickerArray(parent, items) ==
    [nestedKey |-> "", parent |-> parent, Items |-> items]

RECURSIVE nestedArrayLoop(_, _, _, _, _)

\* the loop of NestedArray reporting a bad element under its own index
nestedArrayLoopPerIndex(h, p, key, value, i) ==
    IF i > Len(value) THEN h
    ELSE IF value[i].t = "object"
    THEN nestedArrayLoop(Append(h, newPicker(value[i].o)), p, key, value, i + 1)
    ELSE nestedArrayLoop(Append(addError(h, p, key \o "[" \o Itoa(i - 1) \o "]"),
                                newPicker(EmptyMap)), p, key, value, i + 1)

\* the loop of NestedArray from element i on: one new root Picker per element
nestedArrayLoop(h, p, key, value, i) ==
    IF i > Len(value) THEN h
    ELSE IF value[i].t = "object"
    THEN nestedArrayLoop(Append(h, newPicker(value[i].o)), p, key, value, i + 1)
    ELSE nestedArrayLoop(Append(addError(h, p, key), newPicker(EmptyMap)), p, key, value, i + 1)

\* whether every element of the sequence is a mapping
AllObjects(value) == \A i \in 1..Len(value) : value[i].t = "object"

NestedArray(p, key) ==
    /\ InFn
    /\ Len(arrays) < MaxArrays
    /\ IF ~Is(pickers, p, key, "array")
       THEN /\ pickers' = addError(pickers, p, key)
            /\ arrays' = Append(arrays, newNestedPickerArray(p, <<>>))
            /\ trace' = Append(trace, Op("NestedArray", p, key, FALSE, ArrayRef(Len(arrays) + 1)))
       ELSE LET value == pickers[p].data[key].a IN
            /\ Len(pickers) + Len(value) <= MaxPickers
            /\ pickers' = nestedArrayLoop(pickers, p, key, value, 1)
            /\ arrays' = Append(arrays, newNestedPickerArray(p,
                            [i \in 1..Len(value) |-> Len(pickers) + i]))
            /\ trace' = Append(trace, Op("NestedArray", p, key, AllObjects(value),
                                          ArrayRef(Len(arrays) + 1)))
    /\ UNCHANGED <<pc, entry, fnRan, result, ErrorMissing, ErrorInvalid>>

\* the indexes GetItem is called with
Indexes == -1..3

GetItem(npa, index) ==
    /\ InFn
    /\ IF index < 0 \/ index >= Len(arrays[npa].Items)
       THEN /\ Len(pickers) < MaxPickers
            /\ Step(Append(addError(pickers, arrays[npa].parent,
                                    arrays[npa].nestedKey \o "[" \o Itoa(index) \o "]"),
                           newPicker(EmptyMap)),
                    Op("GetItem", npa, Itoa(index), FALSE, PickerRef(Len(pickers) + 1)))
       ELSE Step(pickers, Op("GetItem", npa, Itoa(index), TRUE,
                             PickerRef(arrays[npa].Items[index + 1])))

(* --------------------- custom errors and confirmation ------------------ *)

\* the reasons the extraction function passes to SetError
Reasons == {"must be 18 or older"}

SetErrorOp(p, key, reason) ==
    /\ InFn
    /\ Step(SetError(pickers, p, key, reason), Op("SetError", p, key, TRUE, Str(reason)))

SetInvalidOp(p, key) ==
    /\ InFn
    /\ Step(SetInvalid(pickers, p, key), Op("SetInvalid", p, key, TRUE, Str(ErrorInvalid)))

HasKeyOp(p, key) ==
    /\ InFn
    /\ Step(pickers, Op("HasKey", p, key, TRUE, Bool(HasKey(pickers, p, key))))

\* the extraction function calls Confirm itself, on any Picker it holds
ConfirmOp(p) ==
    /\ InFn
    /\ Step(pickers, [Op("Confirm", p, "", TRUE, Null) EXCEPT !.err = Confirm(pickers, p)])

(* --------------------------- decoded entry points ---------------------- *)

\* the texts handed to the decoder
JsonTexts == {"{}", "null", "{\"a\":\"2025-01-13\",\"b\":true,\"c\":42.5}", "{\"a\":", "[1,2]", ""}

\* json.Unmarshal into a map[string]interface{}: a JSON object decodes to its
\* mapping, null leaves the map nil (it reads as an empty one), anything else
\* (truncated text, a JSON array, no text) is an error
ParseJson(jsonStr) ==
    CASE jsonStr = "{}" -> [data |-> EmptyMap, err |-> NilErr]
      [] jsonStr = "null" -> [data |-> EmptyMap, err |-> NilErr]
      [] jsonStr = "{\"a\":\"2025-01-13\",\"b\":true,\"c\":42.5}" -> [data |-> DocScalars, err |-> NilErr]
      [] OTHER -> [data |-> EmptyMap, err |-> JsonErr]

\* the requests: a body that cannot be read, or a body holding one of the texts
Requests == {[readOk |-> FALSE, body |-> ""]} \cup {[readOk |-> TRUE, body |-> t] : t \in JsonTexts}

ParseRequestBody(r) ==
    IF ~r.readOk THEN [data |-> EmptyMap, err |-> ReadErr] ELSE ParseJson(r.body)

\* return zero, err before any Picker exists
FailEarly(err, name) ==
    /\ result' = [out |-> "zero", err |-> err]
    /\ pc' = "done"
    /\ entry' = name
    /\ UNCHANGED <<fnRan, pickers, arrays, trace, ErrorMissing, ErrorInvalid>>

PickFromJson(jsonStr) ==
    /\ pc = "idle"
    /\ LET parsed == ParseJson(jsonStr) IN
       IF parsed.err # NilErr THEN FailEarly(parsed.err, "PickFromJson")
       ELSE PickEnter(parsed.data, "PickFromJson")

PickFromRequestBody(r) ==
    /\ pc = "idle"
    /\ LET parsed == ParseRequestBody(r) IN
       IF parsed.err # NilErr THEN FailEarly(parsed.err, "PickFromRequestBody")
       ELSE PickEnter(parsed.data, "PickFromRequestBody")

(* -------------------- Picker with an errorKeys list -------------------- *)

\* {"a": {"a": "John", "b": int64(30), "c": {"a": "john@example.com"}},
\*  "b": "this is not an object", "c": int64(30)}, built by Go code
DocTest ==
    ("a" :> Obj(("a" :> Str("John")) @@ ("b" :> Int64(30)) @@
                ("c" :> Obj("a" :> Str("john@example.com"))))) @@
    ("b" :> Str("this is not an object")) @@
    ("c" :> Int64(30))

\* the documents handed to NewPicker
DocsK == {EmptyMap, DocNested, DocArrays, DocObjects, DocTest}

NewPickerK(data) ==
    [data |-> data, errorKeys |-> <<>>, isNested |-> FALSE, nestedPicker |-> 0, nestedKey |-> ""]

newNestedPickerK(data, parent, key) ==
    [data |-> data, errorKeys |-> <<>>, isNested |-> TRUE, nestedPicker |-> parent, nestedKey |-> key]

RECURSIVE addErrorK(_, _, _)
addErrorK(h, p, key) ==
    IF h[p].isNested
    THEN addErrorK(h, h[p].nestedPicker, h[p].nestedKey \o "." \o key)
    ELSE [h EXCEPT ![p].errorKeys = Append(@, key)]

\* strings.Join(keys, ", ")
RECURSIVE Join(_)
Join(keys) ==
    IF Len(keys) = 0 THEN ""
    ELSE IF Len(keys) = 1 THEN keys[1]
    ELSE keys[1] \o ", " \o Join(Tail(keys))

ConfirmK(h, p) ==
    IF h[p].isNested THEN Err("errors.New", "cannot confirm a nested picker directly", EmptyErrors)
    ELSE IF Len(h[p].errorKeys) > 0
    THEN Err("errors.New", "errors in keys: " \o Join(h[p].errorKeys), EmptyErrors)
    ELSE NilErr

ErrorKeys(h, p) == h[p].errorKeys

HasErrors(h, p) == Len(h[p].errorKeys) > 0

\* p := NewPicker(data), after which the caller works on p
NewPickerOp(data) ==
    /\ pc = "idle"
    /\ pickers' = <<NewPickerK(data)>>
    /\ pc' = "fn"
    /\ entry' = "NewPicker"
    /\ UNCHANGED <<fnRan, arrays, trace, result, ErrorMissing, ErrorInvalid>>

GetStringK(p, key) ==
    /\ InFn
    /\ IF ~Is(pickers, p, key, "string")
       THEN Step(addErrorK(pickers, p, key), Op("GetString", p, key, FALSE, Str("")))
       ELSE Step(pickers, Op("GetString", p, key, TRUE, pickers[p].data[key]))

GetIntK(p, key) ==
    /\ InFn
    /\ IF ~Is(pickers, p, key, "int64")
       THEN Step(addErrorK(pickers, p, key), Op("GetInt", p, key, FALSE, Int64(0)))
       ELSE Step(pickers, Op("GetInt", p, key, TRUE, pickers[p].data[key]))

GetFloatK(p, key) ==
    /\ InFn
    /\ IF ~Is(pickers, p, key, "float64")
       THEN Step(addErrorK(pickers, p, key), Op("GetFloat", p, key, FALSE, Num(0)))
       ELSE Step(pickers, Op("GetFloat", p, key, TRUE, pickers[p].data[key]))

NestedK(p, key) ==
    /\ InFn
    /\ Len(pickers) < MaxPickers
    /\ IF ~Is(pickers, p, key, "object")
       THEN Step(Append(addErrorK(pickers, p, key), newNestedPickerK(EmptyMap, p, key)),
                 Op("Nested", p, key, FALSE, PickerRef(Len(pickers) + 1)))
       ELSE Step(Append(pickers, newNestedPickerK(pickers[p].data[key].o, p, key)),
                 Op("Nested", p, key, TRUE, PickerRef(Len(pickers) + 1)))

\* the loop of NestedArray from element i on
RECURSIVE nestedArrayLoopK(_, _, _, _, _)
nestedArrayLoopK(h, p, key, value, i) ==
    IF i > Len(value) THEN h
    ELSE IF value[i].t = "object"
    THEN nestedArrayLoopK(Append(h, NewPickerK(value[i].o)), p, key, value, i + 1)
    ELSE nestedArrayLoopK(Append(addErrorK(h, p, key), NewPickerK(EmptyMap)), p, key, value, i + 1)

NestedArrayK(p, key) ==
    /\ InFn
    /\ Len(arrays) < MaxArrays
    /\ IF ~Is(pickers, p, key, "array")
       THEN /\ pickers' = addErrorK(pickers, p, key)
            /\ arrays' = Append(arrays, newNestedPickerArray(p, <<>>))
            /\ trace' = Append(trace, Op("NestedArray", p, key, FALSE, ArrayRef(Len(arrays) + 1)))
       ELSE LET value == pickers[p].data[key].a IN
            /\ Len(pickers) + Len(value) <= MaxPickers
            /\ pickers' = nestedArrayLoopK(pickers, p, key, value, 1)
            /\ arrays' = Append(arrays, newNestedPickerArray(p,
                            [i \in 1..Len(value) |-> Len(pickers) + i]))
            /\ trace' = Append(trace, Op("NestedArray", p, key, AllObjects(value),
                                          ArrayRef(Len(arrays) + 1)))
    /\ UNCHANGED <<pc, entry, fnRan, result, ErrorMissing, ErrorInvalid>>

GetItemK(npa, index) ==
    /\ InFn
    /\ IF index < 0 \/ index >= Len(arrays[npa].Items)
       THEN /\ Len(pickers) < MaxPickers
            /\ Step(Append(addErrorK(pickers, arrays[npa].parent,
                                     arrays[npa].nestedKey \o "[" \o Itoa(index) \o "]"),
                           NewPickerK(EmptyMap)),
                    Op("GetItem", npa, Itoa(index), FALSE, PickerRef(Len(pickers) + 1)))
       ELSE Step(pickers, Op("GetItem", npa, Itoa(index), TRUE,
                             PickerRef(arrays[npa].Items[index + 1])))

\* Confirm that hands the errors over and starts a new list
ConfirmOpKClears(p) ==
    /\ InFn
    /\ Step([pickers EXCEPT ![p].errorKeys = <<>>],
            [Op("Confirm", p, "", TRUE, Null) EXCEPT !.err = ConfirmK(pickers, p)])

ConfirmOpK(p) ==
    /\ InFn
    /\ Step(pickers, [Op("Confirm", p, "", TRUE, Null) EXCEPT !.err = ConfirmK(pickers, p)])

(* ---------------------------- specifications --------------------------- *)

Ps == 1..Len(pickers)

\* Spec: an extraction function that walks nested Pickers, sets custom
\* errors and calls Confirm, under Pick
Next ==
    \/ \E data \in Docs : Pick(data)
    \/ PickReturn
    \/ \E p \in Ps, key \in Keys : GetString(p, key)
    \/ \E p \in Ps, key \in Keys : GetInt(p, key)
    \/ \E p \in Ps, key \in Keys : Nested(p, key)
    \/ \E p \in Ps, key \in Keys, reason \in Reasons : SetErrorOp(p, key, reason)
    \/ \E p \in Ps : ConfirmOp(p)

Spec == Init /\ [][Next]_vars

\* an extraction function working on arrays of Pickers
InArrayFn == steps < MaxArraySteps

\* SpecArrays: an extraction function that takes arrays of Pickers and reads
\* their elements
NextArrays ==
    \/ \E data \in Docs : Pick(data)
    \/ PickReturn
    \/ InArrayFn /\ \E p \in Ps, key \in Keys : GetString(p, key)
    \/ InArrayFn /\ \E p \in Ps, key \in Keys : GetInt(p, key)
    \/ InArrayFn /\ \E p \in Ps, key \in Keys : Nested(p, key)
    \/ InArrayFn /\ \E p \in Ps, key \in Keys : NestedArray(p, key)
    \/ InArrayFn /\ \E npa \in 1..Len(arrays), index \in Indexes : GetItem(npa, index)

SpecArrays == Init /\ [][NextArrays]_vars

\* a shorter extraction function
InShortFn == steps < MaxGetterSteps

\* SpecGetters: a short extraction function that uses every getter, on the
\* root and on nested pickers
NextGetters ==
    \/ \E data \in Docs : Pick(data)
    \/ PickReturn
    \/ InShortFn /\ \E p \in Ps, key \in Keys : GetString(p, key)
    \/ InShortFn /\ \E p \in Ps, key \in Keys : GetStringOr(p, key, Str("fallback"))
    \/ InShortFn /\ \E p \in Ps, key \in Keys : GetInt(p, key)
    \/ InShortFn /\ \E p \in Ps, key \in Keys : GetIntOr(p, key, Int64(18))
    \/ InShortFn /\ \E p \in Ps, key \in Keys : GetFloat(p, key)
    \/ InShortFn /\ \E p \in Ps, key \in Keys : GetFloatOr(p, key, Num(5))
    \/ InShortFn /\ \E p \in Ps, key \in Keys : GetBool(p, key)
    \/ InShortFn /\ \E p \in Ps, key \in Keys : GetBoolOr(p, key, Bool(TRUE))
    \/ InShortFn /\ \E p \in Ps, key \in Keys : GetDate(p, key)
    \/ InShortFn /\ \E p \in Ps, key \in Keys : GetDateOr(p, key, Time("2000-01-01T00:00:00Z"))
    \/ InShortFn /\ \E p \in Ps, key \in Keys : GetObject(p, key)
    \/ InShortFn /\ \E p \in Ps, key \in Keys : GetObjectOr(p, key, Obj("b" :> Str("fallback")))
    \/ InShortFn /\ \E p \in Ps, key \in Keys : GetArray(p, key)
    \/ InShortFn /\ \E p \in Ps, key \in Keys : GetArrayOr(p, key, Arr(<<Str("fallback")>>))
    \/ InShortFn /\ \E T \in ElemTypes, p \in Ps, key \in Keys : GetTypedArray(T, p, key)
    \/ InShortFn /\ \E p \in Ps, key \in Keys : Nested(p, key)
    \/ InShortFn /\ \E p \in Ps, key \in Keys : NestedArray(p, key)
    \/ InShortFn /\ \E p \in Ps, key \in Keys : SetInvalidOp(p, key)
    \/ InShortFn /\ \E p \in Ps, key \in Keys : HasKeyOp(p, key)

SpecGetters == Init /\ [][NextGetters]_vars

\* SpecJson: the entry points that decode their input first
NextJson ==
    \/ \E jsonStr \in JsonTexts : PickFromJson(jsonStr)
    \/ \E r \in Requests : PickFromRequestBody(r)
    \/ PickReturn
    \/ \E p \in Ps, key \in Keys : GetString(p, key)
    \/ \E p \in Ps, key \in Keys : GetInt(p, key)
    \/ \E p \in Ps, key \in Keys : GetStringOr(p, key, Str("fallback"))
    \/ \E p \in Ps, key \in Keys : Nested(p, key)

SpecJson == Init /\ [][NextJson]_vars

\* SpecK: a caller working on a Picker made by NewPicker
NextK ==
    \/ \E data \in DocsK : NewPickerOp(data)
    \/ \E p \in Ps, key \in Keys : GetStringK(p, key)
    \/ \E p \in Ps, key \in Keys : GetIntK(p, key)
    \/ \E p \in Ps, key \in Keys : GetFloatK(p, key)
    \/ \E p \in Ps, key \in Keys : NestedK(p, key)
    \/ InArrayFn /\ \E p \in Ps, key \in Keys : NestedArrayK(p, key)
    \/ \E npa \in 1..Len(arrays), index \in Indexes : GetItemK(npa, index)
    \/ \E p \in Ps : ConfirmOpK(p)

SpecK == Init /\ [][NextK]_vars

(* ------------------------------- claims -------------------------------- *)

\* the root a Picker reaches by following its parent links
RECURSIVE RootOf(_, _)
RootOf(h, p) == IF h[p].parentPicker = 0 THEN p ELSE RootOf(h, h[p].parentPicker)

\* the dotted path of key seen from that root: k1.k2...kn.key
RECURSIVE FullPath(_, _, _)
FullPath(h, p, key) ==
    IF h[p].parentPicker = 0 THEN key
    ELSE FullPath(h, h[p].parentPicker, h[p].parentKey \o "." \o key)

\* the nesting depth of a Picker
RECURSIVE Depth(_, _)
Depth(h, p) == IF h[p].parentPicker = 0 THEN 0 ELSE 1 + Depth(h, h[p].parentPicker)

\* the type a required getter asserts, and the placeholder it returns on failure
ReqType(op) ==
    CASE op = "GetString" -> "string"
      [] op = "GetInt" -> "float64"
      [] op = "GetFloat" -> "float64"
      [] op = "GetBool" -> "bool"
      [] op = "GetDate" -> "string"
      [] op = "GetObject" -> "object"
      [] op = "GetArray" -> "array"

ZeroOf(op) ==
    CASE op = "GetString" -> Str("")
      [] op = "GetInt" -> Int64(0)
      [] op = "GetFloat" -> Num(0)
      [] op = "GetBool" -> Bool(FALSE)
      [] op = "GetDate" -> ZeroTime
      [] op = "GetObject" -> Null
      [] op = "GetArray" -> Null

RequiredGetters == {"GetString", "GetInt", "GetFloat", "GetBool", "GetDate", "GetObject", "GetArray"}

FallbackGetters == {"GetStringOr", "GetIntOr", "GetFloatOr", "GetBoolOr", "GetDateOr",
                    "GetObjectOr", "GetArrayOr"}

\* a step of the extraction function
FnStep == Len(trace') = Len(trace) + 1

\* C1: Pick returns fn's result and a nil error exactly when the root
\* Picker's errors are empty after fn has run; otherwise it returns the zero
\* value and a validation error whose detail is the root's whole errors map.
C1_PickOutcome ==
    (pc = "done" /\ fnRan) =>
        IF DOMAIN pickers[1].errors = {}
        THEN result = [out |-> "out", err |-> NilErr]
        ELSE /\ result.out = "zero"
             /\ HasDetail(result.err)
             /\ Detail(result.err) = pickers[1].errors

\* Scenario A: one getter succeeds, the integer getter fails on a string
C1_Witness ==
    /\ pc = "done"
    /\ pickers[1].data = DocNested
    /\ \E i \in 1..Len(trace) : trace[i].op = "GetString" /\ trace[i].ok
    /\ result.out = "zero"
    /\ Detail(result.err) = ("b" :> "invalid")

\* C2: a failing required getter on key f of a Picker reached through any
\* chain of Nested calls records the path k1.k2...kn.f, with its reason, in
\* the errors of the root of the chain.
C2_PathAtRoot ==
    (last.op \in RequiredGetters /\ ~last.ok) =>
        LET root == pickers[RootOf(pickers, last.p)]
            path == FullPath(pickers, last.p, last.key)
        IN  /\ path \in DOMAIN root.errors
            /\ root.errors[path] = IF HasKey(pickers, last.p, last.key)
                                   THEN ErrorInvalid ELSE ErrorMissing

\* the extraction function used nothing but required getters on the root
RootGetterRun ==
    \A i \in 1..Len(trace) : trace[i].op \in RequiredGetters /\ trace[i].p = 1

\* whether the document makes the getter call fail
Fails(t) ==
    \/ ~Is(pickers, t.p, t.key, ReqType(t.op))
    \/ t.op = "GetDate" /\ ~parseDate(pickers[t.p].data[t.key].s).ok

FailedKeys == {trace[i].key : i \in {j \in 1..Len(trace) : Fails(trace[j])}}

\* C3: when fn calls required getters on the root, every failing call
\* returns its zero placeholder, fn goes on, and the errors (and in the end
\* the detail of the validation error) hold exactly the keys that failed.
C3_AllFailuresReported ==
    (pc # "idle" /\ fnRan /\ RootGetterRun) =>
        /\ \A i \in 1..Len(trace) : Fails(trace[i]) => trace[i].ret = ZeroOf(trace[i].op)
        /\ DOMAIN pickers[1].errors = FailedKeys
        /\ pc = "done" =>
              IF FailedKeys = {} THEN result.err = NilErr
              ELSE DOMAIN Detail(result.err) = FailedKeys

\* a failure, a success, then a failure on another key
C3_Witness ==
    /\ pc = "done"
    /\ RootGetterRun
    /\ Len(trace) = 3
    /\ Fails(trace[1]) /\ ~Fails(trace[2]) /\ Fails(trace[3])
    /\ Cardinality(FailedKeys) = 2
    /\ DOMAIN Detail(result.err) = FailedKeys

\* the operations that classify their failure as missing or invalid
ClassifiedOps == RequiredGetters \cup {"Nested", "NestedArray", "GetTypedArray"}

\* the errors map a Picker writes to, and the path it writes key under
TargetOf(h, p) == IF h[p].parentPicker # 0 THEN h[p].parentPicker ELSE p

TargetPath(h, p, key) ==
    IF h[p].parentPicker # 0 THEN h[p].parentKey \o "." \o key ELSE key

\* C4: the reason recorded by a failing required getter, Nested, NestedArray
\* or GetTypedArray on key k is "missing" exactly when k is absent from the
\* mapping of the Picker it was called on, and "invalid" when k is present
\* (with a wrong type, null, or an unparseable date).
C4_MissingIffAbsent ==
    (last.op \in ClassifiedOps /\ ~last.ok) =>
        LET errs == pickers[TargetOf(pickers, last.p)].errors
            path == TargetPath(pickers, last.p, last.key)
        IN  /\ path \in DOMAIN errs
            /\ errs[path] = "missing" <=> ~HasKey(pickers, last.p, last.key)
            /\ errs[path] = "invalid" <=> HasKey(pickers, last.p, last.key)

\* a required getter on a nested Picker whose mapping holds null at the key
C4_Witness ==
    /\ last.op = "GetString" /\ ~last.ok
    /\ pickers[last.p].parentPicker = 1
    /\ HasKey(pickers, last.p, last.key)
    /\ pickers[last.p].data[last.key] = Null
    /\ pickers[1].errors = ("a.c" :> "invalid")

\* C5: Confirm on a nested Picker always returns an error.
C5_NestedConfirmFails ==
    (last.op = "Confirm" /\ pickers[last.p].parentPicker # 0) => last.err # NilErr

\* C6: an error of PickFromJson / PickFromRequestBody is either structural
\* (fn never ran, HasDetail false, Detail empty) or a validation failure
\* (HasDetail true, Detail non-empty), never both.
C6_TwoErrorClasses ==
    (pc = "done" /\ entry \in {"PickFromJson", "PickFromRequestBody"} /\ result.err # NilErr) =>
        LET structural == /\ result.err.kind \in {"json", "read"}
                          /\ ~fnRan
                          /\ ~HasDetail(result.err)
                          /\ Detail(result.err) = EmptyErrors
            validation == /\ fnRan
                          /\ HasDetail(result.err)
                          /\ Detail(result.err) # EmptyErrors
        IN  /\ structural \/ validation
            /\ ~(structural /\ validation)
            /\ HasDetail(result.err) <=> Detail(result.err) # EmptyErrors

\* a validation failure of a request whose body decodes
C6_Witness ==
    /\ pc = "done"
    /\ entry = "PickFromRequestBody"
    /\ fnRan
    /\ HasDetail(result.err)
    /\ Cardinality(DOMAIN Detail(result.err)) = 2

\* C7: a fallback getter changes no errors map of any Picker.
C7_FallbackLeavesErrors ==
    [][(FnStep /\ last'.op \in FallbackGetters) =>
          /\ Len(pickers') = Len(pickers)
          /\ \A q \in 1..Len(pickers) : pickers'[q].errors = pickers[q].errors]_vars

\* GetDateOr on a nested Picker, on a string that is not a date
C7_Witness ==
    /\ last.op = "GetDateOr" /\ ~last.ok
    /\ pickers[last.p].parentPicker # 0
    /\ Is(pickers, last.p, last.key, "string")
    /\ last.ret = Time("2000-01-01T00:00:00Z")
    /\ \A q \in 1..Len(pickers) : pickers[q].errors = EmptyErrors

\* the root a Picker with an errorKeys list reports to, and the path it reports
RECURSIVE RootOfK(_, _)
RootOfK(h, p) == IF h[p].isNested THEN RootOfK(h, h[p].nestedPicker) ELSE p

RECURSIVE FullPathK(_, _, _)
FullPathK(h, p, key) ==
    IF h[p].isNested THEN FullPathK(h, h[p].nestedPicker, h[p].nestedKey \o "." \o key) ELSE key

\* how often a path occurs in a list of paths
Count(keys, path) == Cardinality({i \in 1..Len(keys) : keys[i] = path})

\* C8: the same required getter called twice on the same key of the same
\* Picker returns the same value both times, and if it fails the path is
\* listed exactly once afterwards.
C8_NoDoubleRecord ==
    \A i, j \in 1..Len(trace) :
        (/\ i < j
         /\ trace[i].op \in RequiredGetters
         /\ trace[i].op = trace[j].op /\ trace[i].p = trace[j].p /\ trace[i].key = trace[j].key) =>
            /\ trace[i].ret = trace[j].ret
            /\ ~trace[j].ok =>
                  Count(ErrorKeys(pickers, RootOfK(pickers, trace[j].p)),
                        FullPathK(pickers, trace[j].p, trace[j].key)) = 1

\* the number of entries in all errors maps
RECURSIVE TotalErrors(_, _)
TotalErrors(h, n) ==
    IF n = 0 THEN 0 ELSE Cardinality(DOMAIN h[n].errors) + TotalErrors(h, n - 1)

\* C9: NestedArray over a sequence of n elements returns n Pickers, an
\* element that is not a mapping giving a Picker over an empty mapping; if
\* some element is not a mapping, one error is recorded, at the array's key,
\* however many such elements there are.
C9_NestedArrayShape ==
    [][(FnStep /\ last'.op = "NestedArray" /\ Is(pickers, last'.p, last'.key, "array")) =>
          LET p == last'.p
              key == last'.key
              value == pickers[p].data[key].a
              npa == arrays'[last'.ret.n]
          IN  /\ Len(npa.Items) = Len(value)
              /\ \A i \in 1..Len(value) :
                    pickers'[npa.Items[i]].data =
                        IF value[i].t = "object" THEN value[i].o ELSE EmptyMap
              /\ IF AllObjects(value)
                 THEN TotalErrors(pickers', Len(pickers')) = TotalErrors(pickers, Len(pickers))
                 ELSE /\ TotalErrors(pickers', Len(pickers')) <= TotalErrors(pickers, Len(pickers)) + 1
                      /\ pickers'[TargetOf(pickers, p)].errors =
                            Put(pickers[TargetOf(pickers, p)].errors,
                                TargetPath(pickers, p, key), "invalid")]_vars

\* two elements that are not mappings, one error at the key
C9_Witness ==
    /\ last.op = "NestedArray" /\ last.p = 1 /\ last.key = "c"
    /\ pickers[1].data = DocArrays
    /\ Len(arrays[last.ret.n].Items) = 2
    /\ \A i \in 1..2 : pickers[arrays[last.ret.n].Items[i]].data = EmptyMap
    /\ pickers[1].errors = ("c" :> "invalid")

\* the array and index under which a Picker was produced by NestedArray
ItemOf(q) == {<<n, i>> \in (1..Len(arrays)) \X (1..MaxPickers) :
                 i <= Len(arrays[n].Items) /\ arrays[n].Items[i] = q}

\* the key NestedArray was called with to produce array n
ArrayKey(n) ==
    LET i == CHOOSE j \in 1..Len(trace) : trace[j].op = "NestedArray" /\ trace[j].ret.n = n
    IN  trace[i].key

\* C10: a failing required getter on field f of element i of
\* p.NestedArray(key) is collected in p: p.Confirm() fails and the error is
\* under the path key[i].f.
C10_ItemErrorsReachParent ==
    (last.op \in RequiredGetters /\ ~last.ok) =>
        \A ni \in ItemOf(last.p) :
            LET p == arrays[ni[1]].parent
                root == RootOf(pickers, p)
                path == FullPath(pickers, p,
                            ArrayKey(ni[1]) \o "[" \o Itoa(ni[2] - 1) \o "]." \o last.key)
            IN  /\ Confirm(pickers, root) # NilErr
                /\ path \in DOMAIN pickers[root].errors

\* the index a GetItem step was called with
IndexOf(t) == CHOOSE i \in Indexes : Itoa(i) = t.key

\* C11: GetItem(index) on the array of p.NestedArray(key) returns
\* Items[index] for an index within the list; for any other index it
\* returns a Picker over an empty mapping and records an error under the
\* path key[index] in the errors p reports to.
C11_GetItemPath ==
    (last.op = "GetItem") =>
        LET npa == arrays[last.p]
            index == IndexOf(last)
            p == npa.parent
        IN  IF 0 <= index /\ index < Len(npa.Items)
            THEN last.ret = PickerRef(npa.Items[index + 1])
            ELSE /\ pickers[last.ret.n].data = EmptyMap
                 /\ FullPath(pickers, p, ArrayKey(last.p) \o "[" \o Itoa(index) \o "]")
                       \in DOMAIN pickers[RootOf(pickers, p)].errors

\* whether the value at key is a sequence whose every element is a T
AllOfType(h, p, key, T) ==
    /\ Is(h, p, key, "array")
    /\ \A i \in 1..Len(h[p].data[key].a) : h[p].data[key].a[i].t = T

\* C12: GetTypedArray[T](p, key) is all-or-nothing.  Over a sequence whose
\* every element is a T it returns the elements, in order, and records
\* nothing; otherwise (absent, not a sequence, some element not a T) it
\* returns an empty sequence and records exactly one error, at the path of
\* key.
C12_TypedAllOrNothing ==
    [][(FnStep /\ last'.op = "GetTypedArray") =>
          LET p == last'.p
              key == last'.key
          IN  \A T \in ElemTypes :
                 GetTypedArray(T, p, key) =>
                    IF AllOfType(pickers, p, key, T)
                    THEN /\ last'.ret = pickers[p].data[key]
                         /\ pickers' = pickers
                    ELSE /\ last'.ret = Arr(<<>>)
                         /\ \E reason \in {ErrorMissing, ErrorInvalid} :
                               pickers' = [pickers EXCEPT ![TargetOf(pickers, p)].errors =
                                              Put(@, TargetPath(pickers, p, key), reason)]
                         /\ TotalErrors(pickers', Len(pickers'))
                               <= TotalErrors(pickers, Len(pickers)) + 1]_vars

\* a sequence that starts with a float64 and goes on with a string: nothing
\* is returned and one error is recorded
C12_Witness ==
    /\ last.op = "GetTypedArray" /\ ~last.ok
    /\ last.p = 1 /\ last.key = "c"
    /\ pickers[1].data = DocArrays
    /\ last.ret = Arr(<<>>)
    /\ pickers[1].errors = ("c" :> "invalid")

\* the Pickers handed out by a Nested call that found no mapping at its key
Placeholders(tr) == {tr[i].ret.n : i \in {j \in 1..Len(tr) : tr[j].op = "Nested" /\ ~tr[j].ok}}

\* C13: Nested(key) on a Picker whose value at key is absent or not a mapping
\* records one error at key ("missing" if absent, "invalid" if present) and
\* returns a nested Picker over an empty mapping whose parent is the caller;
\* a required getter on field f of that placeholder returns its zero value
\* and records key.f as "missing".  Over a mapping, Nested records nothing.
C13_NestedPlaceholder ==
    [][FnStep =>
          /\ last'.op = "Nested" =>
                LET p == last'.p
                    key == last'.key
                IN  IF Is(pickers, p, key, "object")
                    THEN pickers' = Append(pickers,
                                        newNestedPicker(pickers[p].data[key].o, p, key))
                    ELSE pickers' =
                            Append([pickers EXCEPT ![TargetOf(pickers, p)].errors =
                                       Put(@, TargetPath(pickers, p, key),
                                           IF key \in DOMAIN pickers[p].data
                                           THEN "invalid" ELSE "missing")],
                                   newNestedPicker(EmptyMap, p, key))
          /\ (last'.op \in RequiredGetters /\ last'.p \in Placeholders(trace)) =>
                LET q == last'.p
                    caller == pickers[q].parentPicker
                    path == pickers[q].parentKey \o "." \o last'.key
                IN  /\ ~last'.ok
                    /\ last'.ret = ZeroOf(last'.op)
                    /\ caller # 0
                    /\ path \in DOMAIN pickers'[caller].errors
                    /\ pickers'[caller].errors[path] = "missing"]_vars

\* Nested on a string value, then a getter on the placeholder
C13_Witness ==
    /\ Len(trace) = 2
    /\ trace[1].op = "Nested" /\ ~trace[1].ok /\ trace[1].p = 1 /\ trace[1].key = "b"
    /\ last.op = "GetBool" /\ last.p = trace[1].ret.n /\ last.key = "a"
    /\ last.ret = Bool(FALSE)
    /\ pickers[1].data = DocNested
    /\ pickers[1].errors = ("b" :> "invalid") @@ ("b.a" :> "missing")

\* C14: SetError(key, reason) and SetInvalid(key) record their reason, also
\* after a getter on key succeeded, and on a nested Picker of any depth the
\* reason is recorded in the errors of the root under the full dotted path.
C14_CustomErrorAtRoot ==
    (last.op \in {"SetError", "SetInvalid"}) =>
        LET root == pickers[RootOf(pickers, last.p)]
            path == FullPath(pickers, last.p, last.key)
        IN  /\ path \in DOMAIN root.errors
            /\ root.errors[path] = last.ret.s

(* ------------------------------ GetNewPicker --------------------------- *)

\* GetNewPicker that hands out a Picker reporting to the caller, as Nested does
GetNewPickerNested(p, key) ==
    /\ InFn
    /\ Len(pickers) < MaxPickers
    /\ IF ~Is(pickers, p, key, "object")
       THEN Step(Append(addErrorK(pickers, p, key), newNestedPickerK(EmptyMap, p, key)),
                 Op("GetNewPicker", p, key, FALSE, PickerRef(Len(pickers) + 1)))
       ELSE Step(Append(pickers, newNestedPickerK(pickers[p].data[key].o, p, key)),
                 Op("GetNewPicker", p, key, TRUE, PickerRef(Len(pickers) + 1)))

GetNewPicker(p, key) ==
    /\ InFn
    /\ Len(pickers) < MaxPickers
    /\ IF ~Is(pickers, p, key, "object")
       THEN Step(Append(addErrorK(pickers, p, key), NewPickerK(EmptyMap)),
                 Op("GetNewPicker", p, key, FALSE, PickerRef(Len(pickers) + 1)))
       ELSE Step(Append(pickers, NewPickerK(pickers[p].data[key].o)),
                 Op("GetNewPicker", p, key, TRUE, PickerRef(Len(pickers) + 1)))

\* SpecNewPicker: a caller that detaches sub-documents with GetNewPicker
NextNewPicker ==
    \/ \E data \in DocsK : NewPickerOp(data)
    \/ \E p \in Ps, key \in Keys : GetNewPicker(p, key)
    \/ \E p \in Ps, key \in Keys : GetStringK(p, key)
    \/ \E p \in Ps, key \in Keys : NestedK(p, key)
    \/ \E p \in Ps : ConfirmOpK(p)

SpecNewPicker == Init /\ [][NextNewPicker]_vars

\* the Pickers handed out by GetNewPicker
NewRoots(tr) == {tr[i].ret.n : i \in {j \in 1..Len(tr) : tr[j].op = "GetNewPicker"}}

\* C15: GetNewPicker(key) returns a root Picker with an empty errorKeys list
\* of its own, recording in the original only one error at key when the
\* value there is not a mapping; a failing getter or Nested on it, or on a
\* Picker nested under it, changes no Picker outside its tree; and Confirm
\* on it is allowed and reports its own errors only.
C15_NewPickerIsolated ==
    [][FnStep =>
          /\ last'.op = "GetNewPicker" =>
                LET p == last'.p
                    key == last'.key
                    root == RootOfK(pickers, p)
                    made == pickers'[last'.ret.n]
                IN  /\ Len(pickers') = Len(pickers) + 1
                    /\ made = NewPickerK(IF Is(pickers, p, key, "object")
                                         THEN pickers[p].data[key].o ELSE EmptyMap)
                    /\ \A q \in Ps \ {root} : pickers'[q] = pickers[q]
                    /\ pickers'[root].errorKeys =
                          IF Is(pickers, p, key, "object") THEN pickers[root].errorKeys
                          ELSE Append(pickers[root].errorKeys, FullPathK(pickers, p, key))
          /\ (last'.op \in {"GetString", "Nested"}
                 /\ RootOfK(pickers, last'.p) \in NewRoots(trace)) =>
                \A q \in Ps : RootOfK(pickers, q) # RootOfK(pickers, last'.p) =>
                                 pickers'[q] = pickers[q]
          /\ (last'.op = "Confirm" /\ last'.p \in NewRoots(trace)) =>
                last'.err = IF pickers[last'.p].errorKeys = <<>> THEN NilErr
                            ELSE Err("errors.New",
                                     "errors in keys: " \o Join(pickers[last'.p].errorKeys),
                                     EmptyErrors)]_vars

\* a sub-document detached, a getter failing on it, Confirm on it reporting
\* that one key while the original has no error
C15_Witness ==
    /\ Len(trace) = 3
    /\ pickers[1].data = DocTest
    /\ trace[1].op = "GetNewPicker" /\ trace[1].ok /\ trace[1].p = 1 /\ trace[1].key = "a"
    /\ trace[2].op = "GetString" /\ ~trace[2].ok /\ trace[2].p = trace[1].ret.n
    /\ trace[2].key = "b"
    /\ trace[3].op = "Confirm" /\ trace[3].p = trace[1].ret.n
    /\ trace[3].err.msg = "errors in keys: b"
    /\ pickers[1].errorKeys = <<>>
    /\ ConfirmK(pickers, 1) = NilErr

(* ------------------------------ struct binder -------------------------- *)

\* fields the binder handles at the outermost record in one run
MaxFields == 2

\* a depth limit that lets one more level through
maxDepthEleven == 10 + 1

\* pickerToStructWithDepth(picker, target, 0, 10)
maxDepth == 10

\* One declared field of a target struct: its json tag, its reflect.Kind,
\* for a slice or a pointer the kind of the element, and for a struct (or an
\* element that is a struct) the fields of that struct.
Field(tag, kind, elem, sub) == [tag |-> tag, kind |-> kind, elem |-> elem, sub |-> sub]

\* type Posting struct { A string `json:"a"` }
Posting == <<Field("a", "string", "", <<>>)>>

\* type Body struct { A string `json:"a"`; B int `json:"b"`; C *string `json:"c"` }
Body ==
    <<Field("a", "string", "", <<>>), Field("b", "int", "", <<>>),
      Field("c", "ptr", "string", <<>>)>>

\* type Outer struct { B Posting `json:"b"` }
Outer == <<Field("b", "struct", "", Posting)>>

\* the struct types fields refer to
StructTypes == {Posting, Body, Outer}

\* the field declarations of the outermost record
Fields ==
    {Field(tag, kind, "", <<>>) :
        tag \in Keys, kind \in {"string", "int", "float64", "bool", "time"}}
    \cup {Field(tag, "struct", "", sub) : tag \in Keys, sub \in StructTypes}
    \cup {Field(tag, "ptr", "struct", sub) : tag \in Keys, sub \in {Posting}}
    \cup {Field(tag, "ptr", "string", <<>>) : tag \in Keys}
    \cup {Field(tag, "slice", "struct", sub) : tag \in Keys, sub \in {Posting}}
    \cup {Field(tag, "slice", elem, <<>>) : tag \in Keys, elem \in {"string", "float64", "int64"}}
    \cup {Field("", "string", "", <<>>), Field("-", "string", "", <<>>)}

\* the zero value of a field's type
RECURSIVE ZeroOfField(_)
ZeroOfField(f) ==
    CASE f.kind = "string" -> Str("")
      [] f.kind = "int" -> Int64(0)
      [] f.kind = "float64" -> Num(0)
      [] f.kind = "bool" -> Bool(FALSE)
      [] f.kind = "time" -> ZeroTime
      [] f.kind = "struct" ->
            Obj([tag \in {f.sub[i].tag : i \in 1..Len(f.sub)} |->
                    ZeroOfField(CHOOSE g \in {f.sub[i] : i \in 1..Len(f.sub)} : g.tag = tag)])
      [] OTHER -> Null

\* the texts handed to PickToStruct
StructTexts ==
    {"{}",
     "{\"a\":{\"a\":\"Al\",\"b\":{\"a\":-1.5,\"c\":\"str\"},\"c\":null},\"b\":\"John\"}",
     "{\"a\":[{\"a\":\"Al\"},\"not-an-object\",{\"b\":true}],\"b\":[\"x\",\"y\"],\"c\":[1,\"x\"]}",
     "{\"a\":\"2025-01-13\",\"b\":true,\"c\":42.5}",
     "{\"a\":\"2025-01-13T10:30:00Z\",\"b\":\"2025-01-13T10:30:00\",\"c\":\"13/01/2025\"}",
     "{\"a\":[{\"a\":1},{\"a\":\"x\"}],\"b\":{\"a\":[\"x\",{\"a\":true}]},\"c\":null}",
     "{\"a\":[{\"a\":\"Al\"},{\"a\":\"Bo\"}],\"b\":[],\"c\":[1.1,2.2]}",
     "{\"a\":"}

\* {"a": [{"a": "Al"}, {"a": "Bo"}], "b": [], "c": [1.1, 2.2]}
DocPostings ==
    ("a" :> Arr(<<Obj("a" :> Str("Al")), Obj("a" :> Str("Bo"))>>)) @@
    ("b" :> Arr(<<>>)) @@
    ("c" :> Arr(<<Num(11), Num(22)>>))

\* levels of records in the deepest target and the deepest document
MaxNest == 11

\* the ways a record holds another: a struct field, or a slice of structs
ChainKinds == {"struct", "slice"}

\* a target type nesting n levels of records below the outermost one
RECURSIVE Chain(_, _)
Chain(kind, n) ==
    IF n = 0 THEN <<>>
    ELSE IF kind = "struct" THEN <<Field("a", "struct", "", Chain(kind, n - 1))>>
    ELSE <<Field("a", "slice", "struct", Chain(kind, n - 1))>>

\* {"a":{"a":{...{}...}}} and {"a":[{"a":[{...{}...}]}]}, n levels deep
RECURSIVE ChainText(_, _)
ChainText(kind, n) ==
    IF n = 0 THEN "{}"
    ELSE IF kind = "struct" THEN "{\"a\":" \o ChainText(kind, n - 1) \o "}"
    ELSE "{\"a\":[" \o ChainText(kind, n - 1) \o "]}"

\* what json.Unmarshal makes of those texts
RECURSIVE ChainDoc(_, _)
ChainDoc(kind, n) ==
    IF n = 0 THEN EmptyMap
    ELSE IF kind = "struct" THEN "a" :> Obj(ChainDoc(kind, n - 1))
    ELSE "a" :> Arr(<<Obj(ChainDoc(kind, n - 1))>>)

\* NewPickerFromJson: json.Unmarshal, then NewPicker
NewPickerFromJson(jsonStr) ==
    CASE jsonStr = "{}" -> [data |-> EmptyMap, err |-> NilErr]
      [] jsonStr = "{\"a\":{\"a\":\"Al\",\"b\":{\"a\":-1.5,\"c\":\"str\"},\"c\":null},\"b\":\"John\"}" ->
            [data |-> DocNested, err |-> NilErr]
      [] jsonStr = "{\"a\":[{\"a\":\"Al\"},\"not-an-object\",{\"b\":true}],\"b\":[\"x\",\"y\"],\"c\":[1,\"x\"]}" ->
            [data |-> DocArrays, err |-> NilErr]
      [] jsonStr = "{\"a\":\"2025-01-13\",\"b\":true,\"c\":42.5}" ->
            [data |-> DocScalars, err |-> NilErr]
      [] jsonStr = "{\"a\":\"2025-01-13T10:30:00Z\",\"b\":\"2025-01-13T10:30:00\",\"c\":\"13/01/2025\"}" ->
            [data |-> DocDates, err |-> NilErr]
      [] jsonStr = "{\"a\":[{\"a\":1},{\"a\":\"x\"}],\"b\":{\"a\":[\"x\",{\"a\":true}]},\"c\":null}" ->
            [data |-> DocObjects, err |-> NilErr]
      [] jsonStr = "{\"a\":[{\"a\":\"Al\"},{\"a\":\"Bo\"}],\"b\":[],\"c\":[1.1,2.2]}" ->
            [data |-> DocPostings, err |-> NilErr]
      [] \E kind \in ChainKinds, n \in 1..MaxNest : jsonStr = ChainText(kind, n) ->
            LET kn == CHOOSE kn \in ChainKinds \X (1..MaxNest) : jsonStr = ChainText(kn[1], kn[2])
            IN  [data |-> ChainDoc(kn[1], kn[2]), err |-> NilErr]
      [] OTHER -> [data |-> EmptyMap, err |-> JsonErr]

\* fmt.Errorf(text): an error that is not nil and carries no detail
Errorf(text) == Err("fmt.Errorf", text, EmptyErrors)

\* what a call made by the binder leaves behind: the Pickers, the error it
\* returned and the value it produced
Outcome(h, err, val) == [h |-> h, err |-> err, val |-> val]

\* a required getter of the Picker with an errorKeys list, as a function:
\* value, ok := p.data[key].(T); if !ok { p.addError(key); return zero }
required(h, p, key, T, zero) ==
    IF ~Is(h, p, key, T) THEN Outcome(addErrorK(h, p, key), NilErr, zero)
    ELSE Outcome(h, NilErr, h[p].data[key])

\* GetDate of that Picker: a string in RFC3339, nothing else
getDateK(h, p, key) ==
    IF ~Is(h, p, key, "string") THEN Outcome(addErrorK(h, p, key), NilErr, ZeroTime)
    ELSE LET parsed == timeParse(RFC3339, h[p].data[key].s) IN
         IF ~parsed.ok THEN Outcome(addErrorK(h, p, key), NilErr, ZeroTime)
         ELSE Outcome(h, NilErr, parsed.t)

\* GetTypedArray[T](p, key) of that Picker: convert[T], all elements or none
getTypedArrayK(h, p, key, T) ==
    IF ~Is(h, p, key, "array") THEN Outcome(addErrorK(h, p, key), NilErr, Arr(<<>>))
    ELSE LET value == h[p].data[key].a IN
         IF \E i \in 1..Len(value) : value[i].t # T
         THEN Outcome(addErrorK(h, p, key), NilErr, Arr(<<>>))
         ELSE Outcome(h, NilErr, Arr(value))

RECURSIVE pickerToStructWithDepth(_, _, _, _)
RECURSIVE bindField(_, _, _, _)
RECURSIVE bindFields(_, _, _, _, _, _)
RECURSIVE bindItems(_, _, _, _, _, _)

\* the int case cutting the list one entry too far
bindIntCutsTooFar(h, picker, jsonTag) ==
    LET errorCountBefore == Len(h[picker].errorKeys)
        floatVal == required(h, picker, jsonTag, "float64", Num(0))
    IN  IF Len(floatVal.h[picker].errorKeys) = errorCountBefore
        THEN Outcome(floatVal.h, NilErr, Int64(Trunc(floatVal.val.n)))
        ELSE required([floatVal.h EXCEPT ![picker].errorKeys = SubSeq(@, 1, errorCountBefore - 1)],
                      picker, jsonTag, "int64", Int64(0))

\* the int case retrying GetInt without taking GetFloat's entry out first
bindIntKeepsFloatError(h, picker, jsonTag) ==
    LET errorCountBefore == Len(h[picker].errorKeys)
        floatVal == required(h, picker, jsonTag, "float64", Num(0))
    IN  IF Len(floatVal.h[picker].errorKeys) = errorCountBefore
        THEN Outcome(floatVal.h, NilErr, Int64(Trunc(floatVal.val.n)))
        ELSE required(floatVal.h, picker, jsonTag, "int64", Int64(0))

\* case reflect.Int, reflect.Int64: GetFloat first; if that left an entry in
\* picker.errorKeys, cut the list back and try GetInt
bindInt(h, picker, jsonTag) ==
    LET errorCountBefore == Len(h[picker].errorKeys)
        floatVal == required(h, picker, jsonTag, "float64", Num(0))
    IN  IF Len(floatVal.h[picker].errorKeys) = errorCountBefore
        THEN Outcome(floatVal.h, NilErr, Int64(Trunc(floatVal.val.n)))
        ELSE required([floatVal.h EXCEPT ![picker].errorKeys = SubSeq(@, 1, errorCountBefore)],
                      picker, jsonTag, "int64", Int64(0))

\* the loop over pickerArray.Items: one recursive call per element, stopping
\* at the first that returns an error
bindItems(h, items, i, sub, depth, vals) ==
    IF i > Len(items) THEN Outcome(h, NilErr, Arr(vals))
    ELSE LET r == pickerToStructWithDepth(h, items[i], sub, depth + 1) IN
         IF r.err # NilErr
         THEN Outcome(r.h, Errorf("failed to convert slice element: " \o r.err.msg), Arr(vals))
         ELSE bindItems(r.h, items, i + 1, sub, depth, Append(vals, r.val))

\* the body of the loop over the fields, from the switch on field.Kind():
\* the Pickers afterwards, the error returned (if the function returns
\* here), and the value the field holds afterwards
bindField(h, picker, f, depth) ==
    CASE f.kind = "string" -> required(h, picker, f.tag, "string", Str(""))
      [] f.kind = "int" -> bindInt(h, picker, f.tag)
      [] f.kind = "float64" -> required(h, picker, f.tag, "float64", Num(0))
      [] f.kind = "bool" -> required(h, picker, f.tag, "bool", Bool(FALSE))
      [] f.kind = "time" -> getDateK(h, picker, f.tag)
      [] f.kind = "struct" \/ (f.kind = "ptr" /\ f.elem = "struct") ->
            IF ~(f.tag \in DOMAIN h[picker].data) THEN Outcome(h, NilErr, ZeroOfField(f))
            ELSE LET nested == IF ~Is(h, picker, f.tag, "object")
                               THEN Append(addErrorK(h, picker, f.tag),
                                           newNestedPickerK(EmptyMap, picker, f.tag))
                               ELSE Append(h, newNestedPickerK(h[picker].data[f.tag].o,
                                                               picker, f.tag))
                     r == pickerToStructWithDepth(nested, Len(h) + 1, f.sub, depth + 1)
                 IN  IF r.err # NilErr
                     THEN Outcome(r.h, Errorf("failed to convert nested struct: " \o r.err.msg),
                                  IF f.kind = "ptr" THEN r.val ELSE ZeroOfField(f))
                     ELSE r
      [] f.kind = "slice" /\ f.elem = "struct" ->
            IF ~(f.tag \in DOMAIN h[picker].data) THEN Outcome(h, NilErr, Null)
            ELSE IF ~Is(h, picker, f.tag, "array")
            THEN Outcome(addErrorK(h, picker, f.tag), NilErr, Arr(<<>>))
            ELSE LET value == h[picker].data[f.tag].a
                     made == nestedArrayLoopK(h, picker, f.tag, value, 1)
                     r == bindItems(made, [i \in 1..Len(value) |-> Len(h) + i], 1,
                                    f.sub, depth, <<>>)
                 IN  IF r.err # NilErr THEN Outcome(r.h, r.err, Null) ELSE r
      [] f.kind = "slice" ->
            IF ~(f.tag \in DOMAIN h[picker].data) THEN Outcome(h, NilErr, Null)
            ELSE LET typed == getTypedArrayK(h, picker, f.tag, f.elem) IN
                 IF Len(typed.val.a) > 0 THEN typed ELSE Outcome(typed.h, NilErr, Null)
      [] OTHER -> Outcome(h, NilErr, Null)

\* the loop over the fields of one struct, from field i on
bindFields(h, picker, typ, i, depth, val) ==
    IF i > Len(typ) THEN Outcome(h, NilErr, Obj(val))
    ELSE IF typ[i].tag = ""
    THEN Outcome(h, Errorf("field missing required json tag"), Obj(val))
    ELSE IF typ[i].tag = "-" THEN bindFields(h, picker, typ, i + 1, depth, val)
    ELSE LET r == bindField(h, picker, typ[i], depth) IN
         IF r.err # NilErr THEN Outcome(r.h, r.err, Obj(val))
         ELSE bindFields(r.h, picker, typ, i + 1, depth, Put(val, typ[i].tag, r.val))

\* the Confirm that ends every call of pickerToStructWithDepth
confirmMapping(h, picker) ==
    LET err == ConfirmK(h, picker) IN
    IF err # NilErr THEN Errorf("errors occurred during mapping: " \o err.msg) ELSE NilErr

pickerToStructWithDepth(h, picker, typ, currentDepth) ==
    IF currentDepth >= maxDepth
    THEN Outcome(h, Errorf("maximum recursion depth (10) exceeded"), Null)
    ELSE LET r == bindFields(h, picker, typ, 1, currentDepth,
                             ZeroOfField(Field("", "struct", "", typ)).o) IN
         IF r.err # NilErr THEN r
         ELSE Outcome(r.h, confirmMapping(r.h, picker), r.val)

\* the record the trace keeps of one field handled at the outermost record
FieldOp(f, r) ==
    [op |-> "Field", p |-> 1, key |-> f.tag, ok |-> r.err = NilErr, ret |-> r.val,
     err |-> r.err, decl |-> f]

\* PickToStruct up to the loop over the fields of the target
PickToStruct(jsonStr) ==
    /\ pc = "idle"
    /\ LET parsed == NewPickerFromJson(jsonStr) IN
       IF parsed.err # NilErr THEN FailEarly(parsed.err, "PickToStruct")
       ELSE /\ pickers' = <<NewPickerK(parsed.data)>>
            /\ pc' = "fn"
            /\ entry' = "PickToStruct"
            /\ fnRan' = TRUE
            /\ UNCHANGED <<arrays, trace, result, ErrorMissing, ErrorInvalid>>

\* one pass of the loop over the fields of the outermost record, on the
\* next declared field f; an error returned from inside ends PickToStruct
BindField(f) ==
    /\ pc = "fn"
    /\ entry = "PickToStruct"
    /\ steps < MaxFields
    /\ LET r == IF f.tag = ""
                THEN Outcome(pickers, Errorf("field missing required json tag"), Null)
                ELSE IF f.tag = "-" THEN Outcome(pickers, NilErr, Null)
                ELSE bindField(pickers, 1, f, 0)
       IN  /\ Len(r.h) <= MaxPickers
           /\ pickers' = r.h
           /\ trace' = Append(trace, FieldOp(f, r))
           /\ IF r.err # NilErr
              THEN /\ pc' = "done"
                   /\ result' = [out |-> "target", err |-> r.err]
              ELSE UNCHANGED <<pc, result>>
    /\ UNCHANGED <<entry, fnRan, arrays, ErrorMissing, ErrorInvalid>>

\* after the last field: Confirm on the outermost Picker
BindReturn ==
    /\ pc = "fn"
    /\ entry = "PickToStruct"
    /\ result' = [out |-> "target", err |-> confirmMapping(pickers, 1)]
    /\ pc' = "done"
    /\ UNCHANGED <<entry, fnRan, pickers, arrays, trace, ErrorMissing, ErrorInvalid>>

\* SpecStruct: PickToStruct on a target whose fields are declared one by one
NextStruct ==
    \/ \E jsonStr \in StructTexts : PickToStruct(jsonStr)
    \/ \E f \in Fields : BindField(f)
    \/ BindReturn

SpecStruct == Init /\ [][NextStruct]_vars

\* whether a mapping holds, under the field's tag, a value of the field's
\* type: a number for int and float64, an RFC3339 string for time.Time, a
\* mapping with conforming fields for a struct or a pointer to one, a
\* sequence of such mappings or of scalars of the element type for a slice.
\* Fields tagged "-" and pointers to scalars are not bound at all.
RECURSIVE Conforms(_, _)
Conforms(data, f) ==
    IF f.tag = "-" \/ (f.kind = "ptr" /\ f.elem # "struct") THEN TRUE
    ELSE /\ f.tag \in DOMAIN data
         /\ LET v == data[f.tag] IN
            CASE f.kind = "string" -> v.t = "string"
              [] f.kind \in {"int", "float64"} -> v.t = "float64"
              [] f.kind = "bool" -> v.t = "bool"
              [] f.kind = "time" -> v.t = "string" /\ timeParse(RFC3339, v.s).ok
              [] f.kind \in {"struct", "ptr"} ->
                    /\ v.t = "object"
                    /\ \A i \in 1..Len(f.sub) : Conforms(v.o, f.sub[i])
              [] f.kind = "slice" /\ f.elem = "struct" ->
                    /\ v.t = "array"
                    /\ \A j \in 1..Len(v.a) :
                          /\ v.a[j].t = "object"
                          /\ \A i \in 1..Len(f.sub) : Conforms(v.a[j].o, f.sub[i])
              [] f.kind = "slice" ->
                    /\ v.t = "array"
                    /\ \A j \in 1..Len(v.a) :
                          v.a[j].t = IF f.elem = "int64" THEN "float64" ELSE f.elem

\* PickToStruct has returned
Bound == pc = "done" /\ entry = "PickToStruct" /\ fnRan

\* C16: PickToStruct is strict: it returns nil only if the document holds
\* every declared field (scalar, struct, pointer to struct, slice, at any
\* level) with the right type.
C16_StrictBinding ==
    (Bound /\ result.err = NilErr) =>
        \A i \in 1..Len(trace) : Conforms(pickers[1].data, trace[i].decl)

\* C17: PickToStruct returns nil and fills every field when the document
\* holds every declared field with the right type, nested structs and
\* slices of structs included.
C17_BindsConforming ==
    (Bound /\ \A i \in 1..Len(trace) :
                 trace[i].decl.tag # "" /\ Conforms(pickers[1].data, trace[i].decl)) =>
        /\ result.err = NilErr
        /\ \A i \in 1..Len(trace) :
              (trace[i].decl.kind \in {"string", "float64", "bool"} /\ trace[i].decl.tag # "-") =>
                  trace[i].ret = pickers[1].data[trace[i].key]

\* the extraction function used nothing but fallback getters and HasKey
FallbackOnlyRun ==
    \A i \in 1..Len(trace) : trace[i].op \in FallbackGetters \cup {"HasKey"}

\* C18: a Pick whose extraction function uses only fallback getters and
\* HasKey returns fn's result and a nil error, whatever the document.
C18_FallbackOnlySucceeds ==
    (pc = "done" /\ entry = "Pick" /\ FallbackOnlyRun) =>
        result = [out |-> "out", err |-> NilErr]

\* two fallback getters falling back, one on a value of the wrong type and
\* one on an absent key
C18_Witness ==
    /\ pc = "done" /\ entry = "Pick" /\ FallbackOnlyRun
    /\ Len(trace) = 2
    /\ trace[1].op = "GetStringOr" /\ ~trace[1].ok /\ HasKey(pickers, 1, trace[1].key)
    /\ trace[2].op = "GetArrayOr" /\ ~trace[2].ok /\ ~HasKey(pickers, 1, trace[2].key)
    /\ result = [out |-> "out", err |-> NilErr]

\* the extraction function under Pick may perform one more operation
InPickFn == entry = "Pick" /\ steps < MaxArraySteps

\* SpecPaths: everything that records errors: the operations of the Picker
\* with an errors map under Pick, and the struct binder under PickToStruct
NextPaths ==
    \/ \E data \in Docs : Pick(data)
    \/ entry = "Pick" /\ PickReturn
    \/ InPickFn /\ \E p \in Ps, key \in Keys : GetString(p, key)
    \/ InPickFn /\ \E p \in Ps, key \in Keys : GetInt(p, key)
    \/ InPickFn /\ \E p \in Ps, key \in Keys : Nested(p, key)
    \/ InPickFn /\ \E p \in Ps, key \in Keys : NestedArray(p, key)
    \/ InPickFn /\ \E npa \in 1..Len(arrays), index \in Indexes : GetItem(npa, index)
    \/ InPickFn /\ \E T \in ElemTypes, p \in Ps, key \in Keys : GetTypedArray(T, p, key)
    \/ InPickFn /\ \E p \in Ps, key \in Keys, reason \in Reasons : SetErrorOp(p, key, reason)
    \/ InPickFn /\ \E p \in Ps, key \in Keys : SetInvalidOp(p, key)
    \/ \E jsonStr \in StructTexts : PickToStruct(jsonStr)
    \/ \E f \in Fields : BindField(f)
    \/ BindReturn

SpecPaths == Init /\ [][NextPaths]_vars

\* the paths a Picker holds, in its errors map or in its errorKeys list
PathsOf(pk) ==
    IF "errors" \in DOMAIN pk THEN DOMAIN pk.errors
    ELSE {pk.errorKeys[i] : i \in 1..Len(pk.errorKeys)}

\* C19: over every operation that records errors (required getters, Nested,
\* NestedArray, GetItem, GetTypedArray, SetError, SetInvalid, the binder's
\* handling of a field) the paths a collector holds only grow, and an error
\* on a path already recorded leaves the latest reason there.
C19_PathsOnlyGrow ==
    [][/\ \A q \in 1..Len(pickers) : PathsOf(pickers[q]) \subseteq PathsOf(pickers'[q])
       /\ (FnStep /\ last'.op \in {"SetError", "SetInvalid"}) =>
             LET q == TargetOf(pickers, last'.p)
                 path == TargetPath(pickers, last'.p, last'.key)
             IN  /\ pickers'[q].errors[path] = last'.ret.s
                 /\ \A r \in 1..Len(pickers) : \A other \in DOMAIN pickers[r].errors :
                       (r # q \/ other # path) =>
                           pickers'[r].errors[other] = pickers[r].errors[other]]_vars

\* the binder cut errorKeys back after GetFloat failed on the second field,
\* and the path recorded for the first field is still there
C19_Witness ==
    /\ entry = "PickToStruct" /\ Len(trace) = 2
    /\ trace[1].decl.kind = "string" /\ trace[1].key = "b"
    /\ trace[2].decl.kind = "int" /\ trace[2].key = "a"
    /\ pickers[1].data = DocScalars
    /\ pickers[1].errorKeys = <<"b", "a">>

\* C20: the errors of every nested Picker stay empty: whatever is recorded
\* through a nested Picker, at any depth, is held by the root only.
C20_NestedCollectorsEmpty ==
    \A q \in 1..Len(pickers) :
        pickers[q].parentPicker # 0 => pickers[q].errors = EmptyErrors

(* ------------------- coercion rules of the getters --------------------- *)

\* {"a": time.Time, "b": int64(-7), "c": -1.5}, built by Go code
DocStamps ==
    ("a" :> Time("2025-01-13T10:30:00Z")) @@ ("b" :> Int64(-7)) @@ ("c" :> Num(-15))

\* the documents handed to NewPicker by a caller reading numbers and dates
DocsCoerce == {DocScalars, DocDates, DocTest, DocStamps}

\* p, err := NewPickerFromJson(jsonStr), after which the caller works on p
NewPickerFromJsonOp(jsonStr) ==
    /\ pc = "idle"
    /\ LET parsed == NewPickerFromJson(jsonStr) IN
       IF parsed.err # NilErr THEN FailEarly(parsed.err, "NewPickerFromJson")
       ELSE /\ pickers' = <<NewPickerK(parsed.data)>>
            /\ pc' = "fn"
            /\ entry' = "NewPickerFromJson"
            /\ UNCHANGED <<fnRan, arrays, trace, result, ErrorMissing, ErrorInvalid>>

GetIntOrK(p, key, fallback) ==
    /\ InFn
    /\ IF ~Is(pickers, p, key, "int64")
       THEN Step(pickers, Op("GetIntOr", p, key, FALSE, fallback))
       ELSE Step(pickers, Op("GetIntOr", p, key, TRUE, pickers[p].data[key]))

GetDateK(p, key) ==
    /\ InFn
    /\ LET r == getDateK(pickers, p, key) IN
       Step(r.h, Op("GetDate", p, key, r.h = pickers, r.val))

GetDateOrK(p, key, fallback) ==
    /\ InFn
    /\ IF ~Is(pickers, p, key, "time")
       THEN Step(pickers, Op("GetDateOr", p, key, FALSE, fallback))
       ELSE Step(pickers, Op("GetDateOr", p, key, TRUE, pickers[p].data[key]))

\* a caller working on a Picker it made itself may perform one more operation
InNewPickerFn == entry \in {"NewPicker", "NewPickerFromJson"} /\ steps < MaxGetterSteps

\* the defaults the callers pass to the fallback getters
Fallback(op) ==
    CASE op = "GetIntOr" -> Int64(18)
      [] op = "GetDateOr" -> Time("2000-01-01T00:00:00Z")

\* SpecCoerce: callers reading numbers and dates with the required and the
\* fallback getters, on a Picker made by Pick and on one made by NewPicker or
\* NewPickerFromJson
NextCoerce ==
    \/ \E data \in Docs : Pick(data)
    \/ entry = "Pick" /\ PickReturn
    \/ InPickFn /\ \E p \in Ps, key \in Keys : GetInt(p, key)
    \/ InPickFn /\ \E p \in Ps, key \in Keys : GetIntOr(p, key, Fallback("GetIntOr"))
    \/ InPickFn /\ \E p \in Ps, key \in Keys : GetDate(p, key)
    \/ InPickFn /\ \E p \in Ps, key \in Keys : GetDateOr(p, key, Fallback("GetDateOr"))
    \/ \E data \in DocsCoerce : NewPickerOp(data)
    \/ \E jsonStr \in StructTexts : NewPickerFromJsonOp(jsonStr)
    \/ InNewPickerFn /\ \E p \in Ps, key \in Keys : GetIntK(p, key)
    \/ InNewPickerFn /\ \E p \in Ps, key \in Keys : GetIntOrK(p, key, Fallback("GetIntOr"))
    \/ InNewPickerFn /\ \E p \in Ps, key \in Keys : GetDateK(p, key)
    \/ InNewPickerFn /\ \E p \in Ps, key \in Keys : GetDateOrK(p, key, Fallback("GetDateOr"))

SpecCoerce == Init /\ [][NextCoerce]_vars

\* C21: a fallback getter coerces like the required getter of its type: on
\* the same key of the same Picker, where the required getter succeeds with v
\* the fallback getter returns v, and where the required getter fails the
\* fallback getter returns the caller's default.  In particular GetDateOr
\* returns the parsed time for every string GetDate accepts.
C21_FallbackSameCoercion ==
    \A i, j \in 1..Len(trace) :
        (/\ trace[i].op \in {"GetInt", "GetDate"}
         /\ trace[j].op \in {"GetIntOr", "GetDateOr"}
         /\ trace[j].op = trace[i].op \o "Or"
         /\ trace[i].p = trace[j].p /\ trace[i].key = trace[j].key) =>
            trace[j].ret = IF trace[i].ok THEN trace[i].ret ELSE Fallback(trace[j].op)

\* C25: GetInt and GetIntOr on a key holding a decoded JSON number v (a
\* float64) succeed, record no error and return v truncated toward zero, so
\* a Picker built from JSON text never reports an error for GetInt on a key
\* holding a number.
C25_IntFromJsonNumber ==
    [][(FnStep /\ last'.op \in {"GetInt", "GetIntOr"}
               /\ Is(pickers, last'.p, last'.key, "float64")) =>
          /\ last'.ok
          /\ last'.ret = Int64(Trunc(pickers[last'.p].data[last'.key].n))
          /\ pickers' = pickers]_vars

\* whether a mapping holds no decoded number under the tag
NoNumber(data, tag) == ~(tag \in DOMAIN data /\ data[tag].t = "float64")

\* C22: in the struct binder an int field whose value is missing or not a
\* number leaves exactly one entry for its path in the root's errorKeys: the
\* entry of the GetFloat attempt is never there twice and never taken out
\* without being put back, and the entries recorded before stay.  This holds
\* for a field of the outermost record and for a field of a record bound
\* through Nested.
C22_IntFieldOneEntry ==
    [][(FnStep /\ last'.op = "Field") =>
          LET f == last'.decl
              before == pickers[1].errorKeys
              after == pickers'[1].errorKeys
          IN  /\ (f.kind = "int" /\ NoNumber(pickers[1].data, f.tag)) =>
                    after = Append(before, f.tag)
              /\ ((f.kind = "struct" \/ (f.kind = "ptr" /\ f.elem = "struct"))
                     /\ HasKey(pickers, 1, f.tag)) =>
                    LET data == IF Is(pickers, 1, f.tag, "object")
                                THEN pickers[1].data[f.tag].o ELSE EmptyMap
                    IN  \A i \in 1..Len(f.sub) :
                           (f.sub[i].kind = "int" /\ NoNumber(data, f.sub[i].tag)) =>
                               LET path == f.tag \o "." \o f.sub[i].tag IN
                               /\ Count(after, path) = Count(before, path) + 1
                               /\ SubSeq(after, 1, Len(before)) = before]_vars

\* an int field of the outermost record on a string, then an int field of a
\* nested record on a mapping: one entry each
C22_Witness ==
    /\ entry = "PickToStruct" /\ Len(trace) = 2
    /\ pickers[1].data = DocNested
    /\ trace[1].decl = Field("b", "int", "", <<>>)
    /\ trace[2].decl = Field("a", "struct", "", Body)
    /\ pickers[1].errorKeys = <<"b", "a.b">>

(* ----------------------- binding a whole target ------------------------ *)

\* the fields the targets are declared from
TargetFields ==
    {Field("a", "string", "", <<>>), Field("b", "int", "", <<>>),
     Field("a", "struct", "", Posting), Field("b", "ptr", "struct", Posting),
     Field("a", "slice", "struct", Posting), Field("c", "slice", "float64", <<>>),
     Field("", "string", "", <<>>), Field("-", "string", "", <<>>)}

\* the target types: every declaration of up to MaxFields of those fields
Targets == UNION {[1..n -> TargetFields] : n \in 1..MaxFields}

\* the target types nesting records up to MaxNest levels deep
ChainTargets == {Chain(kind, n) : kind \in ChainKinds, n \in 0..MaxNest}

\* the texts nesting records up to MaxNest levels deep
ChainTexts == {ChainText(kind, n) : kind \in ChainKinds, n \in 1..MaxNest}

\* PickToStruct(jsonStr, &target) for a target of type typ, as one step
PickToStructTarget(jsonStr, typ) ==
    /\ pc = "idle"
    /\ LET parsed == NewPickerFromJson(jsonStr) IN
       IF parsed.err # NilErr THEN FailEarly(parsed.err, "PickToStruct")
       ELSE LET r == pickerToStructWithDepth(<<NewPickerK(parsed.data)>>, 1, typ, 0) IN
            /\ pickers' = r.h
            /\ trace' = <<[op |-> "PickToStruct", p |-> 1, key |-> jsonStr,
                           ok |-> r.err = NilErr, ret |-> r.val, err |-> r.err,
                           decl |-> Field("", "struct", "", typ)]>>
            /\ result' = [out |-> "target", err |-> r.err]
            /\ pc' = "done"
            /\ entry' = "PickToStruct"
            /\ fnRan' = TRUE
            /\ UNCHANGED <<arrays, ErrorMissing, ErrorInvalid>>

\* SpecTargets: PickToStruct on one text and one target type
NextTargets ==
    \/ \E jsonStr \in StructTexts, typ \in Targets : PickToStructTarget(jsonStr, typ)
    \/ \E jsonStr \in ChainTexts, typ \in ChainTargets : PickToStructTarget(jsonStr, typ)

SpecTargets == Init /\ [][NextTargets]_vars

\* the type of the target a finished PickToStruct was called with
TargetOfRun == trace[1].decl.sub

\* C23: a field of the target struct without a json tag makes PickToStruct
\* return the configuration error, whatever the document holds and whatever
\* was recorded in errorKeys (also when the document is valid for all other
\* fields).
C23_UntaggedFieldFailsFast ==
    (pc = "done" /\ fnRan /\ \E i \in 1..Len(TargetOfRun) : TargetOfRun[i].tag = "") =>
        result.err = Errorf("field missing required json tag")

\* the fields of a type that hold records: structs, pointers to structs,
\* slices of structs
RecordFields(typ) ==
    {i \in 1..Len(typ) : typ[i].kind = "struct" \/ (typ[i].kind \in {"ptr", "slice"}
                                                    /\ typ[i].elem = "struct")}

\* how many levels of records a type nests below itself
RECURSIVE Nesting(_)
Nesting(typ) ==
    IF RecordFields(typ) = {} THEN 0
    ELSE LET deepest == CHOOSE i \in RecordFields(typ) :
                            \A j \in RecordFields(typ) : Nesting(typ[j].sub) <= Nesting(typ[i].sub)
         IN  1 + Nesting(typ[deepest].sub)

\* the depth error as it comes back through k levels of callers
RECURSIVE Wrapped(_, _)
Wrapped(prefix, k) ==
    IF k = 0 THEN "maximum recursion depth (10) exceeded" ELSE prefix \o Wrapped(prefix, k - 1)

IsDepthError(err) ==
    \E k \in 0..MaxNest, prefix \in {"failed to convert nested struct: ",
                                     "failed to convert slice element: "} :
        err = Errorf(Wrapped(prefix, k))

\* C29: the binder terminates, recursing at most 10 levels into nested
\* records and slices of records: a binding that reaches depth 10 (target
\* and document both nest records that deep) returns the "maximum recursion
\* depth" error without making a Picker for a deeper level, and a target
\* nesting fewer than 10 levels never gets that error.
C29_DepthLimit ==
    (pc = "done" /\ fnRan) =>
        /\ IsDepthError(result.err) => Nesting(TargetOfRun) >= 10
        /\ \A kind \in ChainKinds, n \in 0..MaxNest :
              TargetOfRun = Chain(kind, n) =>
                  \A m \in 0..MaxNest :
                      last.key = ChainText(kind, m) =>
                          /\ IsDepthError(result.err) <=> (n >= 10 /\ m >= 10)
                          /\ Len(pickers) <= 11

\* a target and a document nesting records 10 levels deep
C29_Witness ==
    /\ pc = "done" /\ fnRan
    /\ TargetOfRun = Chain("struct", 10)
    /\ last.key = ChainText("struct", 10)
    /\ IsDepthError(result.err)
    /\ Len(pickers) = 11

(* ------------------------- customised reasons -------------------------- *)

\* the texts an application assigns to ErrorMissing and ErrorInvalid
ReasonTexts == {<<"missing", "invalid">>, <<"required", "wrong type">>}

\* picker.ErrorMissing = ...; picker.ErrorInvalid = ..., at any moment
Customize(texts) ==
    /\ <<ErrorMissing, ErrorInvalid>> # texts
    /\ ErrorMissing' = texts[1]
    /\ ErrorInvalid' = texts[2]
    /\ UNCHANGED <<pc, entry, fnRan, pickers, arrays, trace, result>>

\* SpecReasons: an extraction during which the application changes the texts
NextReasons ==
    \/ \E data \in Docs : Pick(data)
    \/ PickReturn
    \/ \E texts \in ReasonTexts : Customize(texts)
    \/ InPickFn /\ \E p \in Ps, key \in Keys : GetString(p, key)
    \/ InPickFn /\ \E p \in Ps, key \in Keys : GetDate(p, key)
    \/ InPickFn /\ \E p \in Ps, key \in Keys : Nested(p, key)
    \/ InPickFn /\ \E p \in Ps, key \in Keys : SetInvalidOp(p, key)

SpecReasons == Init /\ [][NextReasons]_vars

\* every entry of every errors map but the one at path of Picker q is as before
OthersKept(q, path) ==
    \A r \in 1..Len(pickers) : \A other \in DOMAIN pickers[r].errors :
        (r # q \/ other # path) =>
            /\ other \in DOMAIN pickers'[r].errors
            /\ pickers'[r].errors[other] = pickers[r].errors[other]

\* C24: ErrorMissing and ErrorInvalid are read when an error is recorded.
\* Changing them changes no entry recorded so far, and an entry recorded
\* afterwards, through a root or a nested Picker, carries the text they hold
\* at that moment.
C24_ReasonsReadWhenRecorded ==
    [][/\ (ErrorMissing' # ErrorMissing \/ ErrorInvalid' # ErrorInvalid) => pickers' = pickers
       /\ (FnStep /\ ((last'.op \in ClassifiedOps /\ ~last'.ok) \/ last'.op = "SetInvalid")) =>
             LET q == TargetOf(pickers, last'.p)
                 path == TargetPath(pickers, last'.p, last'.key)
             IN  /\ path \in DOMAIN pickers'[q].errors
                 /\ pickers'[q].errors[path] =
                       IF HasKey(pickers, last'.p, last'.key) \/ last'.op = "SetInvalid"
                       THEN ErrorInvalid ELSE ErrorMissing
                 /\ OthersKept(q, path)]_vars

\* an error recorded with the first texts, the texts changed, an error
\* recorded through a nested Picker with the new ones
C24_Witness ==
    /\ Len(trace) = 2
    /\ pickers[1].data = DocNested
    /\ trace[1].op = "Nested" /\ ~trace[1].ok /\ trace[1].key = "b"
    /\ trace[2].op = "GetString" /\ trace[2].p = trace[1].ret.n /\ trace[2].key = "a"
    /\ ErrorMissing = "required"
    /\ pickers[1].errors = ("b" :> "invalid") @@ ("b.a" :> "required")

\* the path, from the Picker made by NewPicker, of a key of Picker p: p is
\* that Picker or nested under it, or p is (nested under) element i of an
\* array taken from such a Picker
PathFromRoot(p, key) ==
    LET r == RootOfK(pickers, p) IN
    IF r = 1 THEN FullPathK(pickers, p, key)
    ELSE LET ni == CHOOSE ni \in ItemOf(r) : TRUE IN
         FullPathK(pickers, arrays[ni[1]].parent,
                   ArrayKey(ni[1]) \o "[" \o Itoa(ni[2] - 1) \o "]." \o FullPathK(pickers, p, key))

\* whether a step is a failing getter or Nested on a Picker of the tree
FailedInTree(t) ==
    /\ t.op \in {"GetString", "GetInt", "GetFloat", "Nested"}
    /\ ~t.ok
    /\ LET r == RootOfK(pickers, t.p) IN
       r = 1 \/ (ItemOf(r) # {} /\ \A ni \in ItemOf(r) : RootOfK(pickers, arrays[ni[1]].parent) = 1)

\* the paths of the failing operations among the first n, in the order performed
RECURSIVE FailedPaths(_)
FailedPaths(n) ==
    IF n = 0 THEN <<>>
    ELSE IF FailedInTree(trace[n])
    THEN Append(FailedPaths(n - 1), PathFromRoot(trace[n].p, trace[n].key))
    ELSE FailedPaths(n - 1)

\* whether the elements of a occur in b, in the same order
RECURSIVE IsSubseq(_, _)
IsSubseq(a, b) ==
    IF a = <<>> THEN TRUE
    ELSE IF b = <<>> THEN FALSE
    ELSE IF Head(a) = Head(b) THEN IsSubseq(Tail(a), Tail(b))
    ELSE IsSubseq(a, Tail(b))

\* C26: ErrorKeys() of the Picker made by NewPicker lists the full path of
\* every failing getter and Nested call performed on it, on the Pickers
\* nested under it and on the elements of its arrays, in the order in which
\* the calls were made.
C26_ErrorKeysInOrder ==
    (entry = "NewPicker" /\ pc = "fn") =>
        IsSubseq(FailedPaths(Len(trace)), ErrorKeys(pickers, 1))

(* ---------------------- changing the wrapped mapping ------------------- *)

\* whether Picker q wraps the very mapping its parent holds under its key
\* (Nested over a mapping hands the parent's mapping on, not a copy)
SharesWithParent(h, q) ==
    /\ h[q].isNested
    /\ Is(h, h[q].nestedPicker, h[q].nestedKey, "object")
    /\ h[h[q].nestedPicker].data[h[q].nestedKey].o = h[q].data

\* a write to the mapping p wraps, as every holder of that mapping sees it:
\* the Pickers obtained by the same Nested call on the same mapping, and the
\* parent, whose value under the key is this mapping
RECURSIVE WriteData(_, _, _)
WriteData(h, p, data) ==
    LET same == {q \in 1..Len(h) :
                    \/ q = p
                    \/ /\ SharesWithParent(h, p) /\ SharesWithParent(h, q)
                       /\ h[q].nestedPicker = h[p].nestedPicker
                       /\ h[q].nestedKey = h[p].nestedKey}
        written == [q \in 1..Len(h) |-> IF q \in same THEN [h[q] EXCEPT !.data = data] ELSE h[q]]
    IN  IF SharesWithParent(h, p)
        THEN LET parent == h[p].nestedPicker IN
             WriteData(written, parent, Put(h[parent].data, h[p].nestedKey, Obj(data)))
        ELSE written

\* the values a caller adds
NewValues == {Str("new"), Num(10)}

\* p.data[key] = value
AddKeyOp(p, key, value) ==
    /\ InFn
    /\ Step(WriteData(pickers, p, Put(pickers[p].data, key, value)),
            Op("AddKey", p, key, TRUE, value))

\* delete(p.data, key)
DelKeyOp(p, key) ==
    /\ InFn
    /\ Step(WriteData(pickers, p, [k \in DOMAIN pickers[p].data \ {key} |-> pickers[p].data[k]]),
            Op("DelKey", p, key, TRUE, Null))

\* for k, v := range other.data { p.data[k] = v }
ExtendOp(p, other) ==
    /\ InFn
    /\ Step(WriteData(pickers, p, pickers[other].data @@ pickers[p].data),
            Op("Extend", p, "", TRUE, PickerRef(other)))

\* a new root Picker over a new mapping holding the same keys and values
CopyOp(p) ==
    /\ InFn
    /\ Len(pickers) < MaxPickers
    /\ Step(Append(pickers, NewPickerK(pickers[p].data)),
            Op("Copy", p, "", TRUE, PickerRef(Len(pickers) + 1)))

\* the closure of FlatCopy: the leaves of a mapping under their dotted paths
RECURSIVE flatten(_, _)
flatten(prefix, data) ==
    IF DOMAIN data = {} THEN EmptyMap
    ELSE LET k == CHOOSE k \in DOMAIN data : TRUE
             rest == [q \in DOMAIN data \ {k} |-> data[q]]
         IN  (IF data[k].t = "object" THEN flatten(prefix \o k \o ".", data[k].o)
              ELSE (prefix \o k) :> data[k]) @@ flatten(prefix, rest)

\* FlatCopy with flat := p.data in place of a new mapping
FlatCopyInPlace(p) ==
    /\ InFn
    /\ Len(pickers) < MaxPickers
    /\ LET flat == flatten("", pickers[p].data) @@ pickers[p].data IN
       Step(Append(WriteData(pickers, p, flat), NewPickerK(flat)),
            Op("FlatCopy", p, "", TRUE, PickerRef(Len(pickers) + 1)))

FlatCopyOp(p) ==
    /\ InFn
    /\ Len(pickers) < MaxPickers
    /\ Step(Append(pickers, NewPickerK(flatten("", pickers[p].data))),
            Op("FlatCopy", p, "", TRUE, PickerRef(Len(pickers) + 1)))

\* SpecDocs: a caller that reads from, copies and changes the mapping of a
\* Picker made by NewPicker and of the Pickers nested under it
NextDocs ==
    \/ \E data \in DocsK : NewPickerOp(data)
    \/ InArrayFn /\ \E p \in Ps, key \in Keys : GetStringK(p, key)
    \/ InArrayFn /\ \E p \in Ps, key \in Keys : NestedK(p, key)
    \/ InArrayFn /\ \E p \in Ps, key \in Keys, value \in NewValues : AddKeyOp(p, key, value)
    \/ InArrayFn /\ \E p \in Ps, key \in Keys : DelKeyOp(p, key)
    \/ InArrayFn /\ \E p \in Ps, other \in Ps : ExtendOp(p, other)
    \/ InArrayFn /\ \E p \in Ps : CopyOp(p)
    \/ InArrayFn /\ \E p \in Ps : FlatCopyOp(p)
    \/ InArrayFn /\ \E p \in Ps : ConfirmOpK(p)

SpecDocs == Init /\ [][NextDocs]_vars

\* C27: no operation but AddKey and DelKey changes a wrapped mapping: the
\* getters, Nested, Confirm, Copy, FlatCopy and Extend leave the mapping of
\* the Picker they are called on, and of every other Picker, as it was.
C27_OnlyAddDelMutate ==
    [][(FnStep /\ last'.op \notin {"AddKey", "DelKey"}) =>
          \A q \in 1..Len(pickers) : pickers'[q].data = pickers[q].data]_vars

\* C27 as amended: no operation but AddKey, DelKey and Extend changes a
\* wrapped mapping: every other operation leaves the mapping of the Picker it
\* is called on, and of every other Picker there was, as it was.
C27_OnlyAddDelExtendMutate ==
    [][(FnStep /\ last'.op \notin {"AddKey", "DelKey", "Extend"}) =>
          \A q \in 1..Len(pickers) : pickers'[q].data = pickers[q].data]_vars

\* C27 happens: FlatCopy of a Picker whose mapping, changed by AddKey before,
\* holds a mapping, returned another Picker over the dotted keys
C27_Witness ==
    /\ Len(trace) = 2 /\ trace[1].op = "AddKey" /\ last.op = "FlatCopy"
    /\ trace[1].p = last.p
    /\ \E k \in DOMAIN pickers[last.p].data : pickers[last.p].data[k].t = "object"
    /\ DOMAIN pickers[last.ret.n].data # DOMAIN pickers[last.p].data
    /\ pickers[last.p].data[trace[1].key] = trace[1].ret

\* whether step t is a failing required getter on a Picker that shares root r
FailedUnder(h, t, r) ==
    /\ t.op \in {"GetString", "GetInt", "GetFloat"}
    /\ ~t.ok
    /\ RootOfK(h, t.p) = r

\* C28: Confirm on a root Picker only reads its error list: it changes no
\* Picker; called twice in a row it returns the same; after a Confirm that
\* returned nil, the next Confirm returns an error once a required getter has
\* failed in between on a Picker sharing that root; and it returns nil only
\* if no required getter failed under that root before the call.
C28_ConfirmPureRead ==
    [][(FnStep /\ last'.op = "Confirm" /\ ~pickers[last'.p].isNested) =>
          LET r == last'.p
              j == Len(trace')
          IN  /\ pickers' = pickers
              /\ (last.op = "Confirm" /\ last.p = r) => last'.err = last.err
              /\ \A i \in 1..(j - 1) :
                    (/\ trace[i].op = "Confirm" /\ trace[i].p = r /\ trace[i].err = NilErr
                     /\ \E k \in (i + 1)..(j - 1) : FailedUnder(pickers, trace[k], r)) =>
                        last'.err # NilErr
              /\ last'.err = NilErr => \A k \in 1..(j - 1) : ~FailedUnder(pickers, trace[k], r)]_vars

\* C28 happens: Confirm returned nil, a required getter failed on a nested
\* Picker, and Confirm on the same root then returned the error
C28_Witness ==
    /\ Len(trace) = 3
    /\ trace[1].op = "Confirm" /\ trace[1].err = NilErr /\ ~pickers[trace[1].p].isNested
    /\ FailedUnder(pickers, trace[2], trace[1].p)
    /\ trace[3].op = "Confirm" /\ trace[3].p = trace[1].p /\ trace[3].err # NilErr
    /\ pickers[trace[1].p].errorKeys = <<FullPathK(pickers, trace[2].p, trace[2].key)>>

(* ------------------ getters called from several threads ---------------- *)

\* threads of the caller that share the Pickers
Threads == 2

\* the calls that are inside append, between the load of p.errorKeys and the
\* store: the trace holds them as "addError" with the list that was loaded
InFlight == {i \in 1..Len(trace) : trace[i].op = "addError"}

Loaded(t) == [i \in 1..Len(t.ret.a) |-> t.ret.a[i].s]

\* a string whose pointer and length come from two different stores
TornPath == "\\torn"

\* GetString on a thread of its own, up to the load of the root's errorKeys:
\* a value that is a string is returned at once; otherwise addError walks to
\* the root and append loads the list
GetStringLoad(p, key) ==
    /\ InFn
    /\ Cardinality(InFlight) < Threads
    /\ IF Is(pickers, p, key, "string")
       THEN Step(pickers, Op("GetString", p, key, TRUE, pickers[p].data[key]))
       ELSE LET keys == pickers[RootOfK(pickers, p)].errorKeys IN
            Step(pickers, Op("addError", p, key, FALSE, Arr([i \in 1..Len(keys) |-> Str(keys[i])])))

\* the store of a getter that appends under a lock: to the list as it is now
GetStringStoreLocked(i) ==
    /\ i \in InFlight
    /\ LET t == trace[i]
       IN  /\ pickers' = addErrorK(pickers, t.p, t.key)
           /\ trace' = [trace EXCEPT ![i] = Op("GetString", t.p, t.key, FALSE, Str(""))]
    /\ UNCHANGED <<pc, entry, fnRan, arrays, result, ErrorMissing, ErrorInvalid>>

\* the rest of that call: p.errorKeys = the loaded list with the path appended,
\* whatever was stored since the load. When another store came in between,
\* the two race: the element is this path or a torn string.
GetStringStore(i) ==
    /\ i \in InFlight
    /\ LET t == trace[i]
           root == RootOfK(pickers, t.p)
           path == FullPathK(pickers, t.p, t.key)
           raced == pickers[root].errorKeys # Loaded(t)
       IN  \E stored \in (IF raced THEN {path, TornPath} ELSE {path}) :
               /\ pickers' = [pickers EXCEPT ![root].errorKeys = Append(Loaded(t), stored)]
               /\ trace' = [trace EXCEPT ![i] = Op("GetString", t.p, t.key, FALSE, Str(""))]
    /\ UNCHANGED <<pc, entry, fnRan, arrays, result, ErrorMissing, ErrorInvalid>>

\* SpecRace: threads that call Nested and GetString on Pickers sharing a root
NextRace ==
    \/ \E data \in DocsK : NewPickerOp(data)
    \/ \E p \in Ps, key \in Keys : NestedK(p, key)
    \/ \E p \in Ps, key \in Keys : GetStringLoad(p, key)
    \/ \E i \in 1..Len(trace) : GetStringStore(i)

SpecRace == Init /\ [][NextRace]_vars

\* the failing getters under root r that have returned
Returned(r) ==
    {i \in 1..Len(trace) : /\ trace[i].op = "GetString" /\ ~trace[i].ok
                           /\ RootOfK(pickers, trace[i].p) = r}

\* C30: nothing orders the threads: a failing getter that returns has stored,
\* in the root's list and nowhere else, the list it loaded plus one element
\* (its path, or a torn string), whatever another thread stored between its
\* load and its store; what the other thread stored is then gone.
C30_UnsynchronizedUpdate ==
    [][\A i \in InFlight : trace'[i].op = "GetString" =>
          LET r == RootOfK(pickers, trace[i].p)
              keys == pickers'[r].errorKeys
          IN  /\ Len(keys) = Len(Loaded(trace[i])) + 1
              /\ \A n \in 1..Len(Loaded(trace[i])) : keys[n] = Loaded(trace[i])[n]
              /\ keys[Len(keys)] \in {FullPathK(pickers, trace[i].p, trace[i].key), TornPath}
              /\ \A q \in 1..Len(pickers) : q # r => pickers'[q] = pickers[q]]_vars

\* C30 happens: two failing getters on different Pickers sharing the root
\* have both returned, and the root's list holds one of the two paths only
C30_Witness ==
    /\ InFlight = {}
    /\ \E i, j \in Returned(1) :
          LET a == FullPathK(pickers, trace[i].p, trace[i].key)
              b == FullPathK(pickers, trace[j].p, trace[j].key)
          IN  /\ i < j /\ trace[i].p # trace[j].p /\ a # b
              /\ Returned(1) = {i, j}
              /\ pickers[1].errorKeys = <<b>>
              /\ ~pickers[1].isNested

====
